---------------------------- MODULE Spec2Model ----------------------------
(***************************************************************************)
(* A model of the async-plugins library: the task queue of src/queue.ts    *)
(* and the call coalescer of src/dedupe.ts.  Each component is an          *)
(* independent instance with its own state; a specification of one         *)
(* component leaves the other component's variables untouched.             *)
(***************************************************************************)
EXTENDS Integers, Sequences, FiniteSets, TLC

(***************************************************************************)
(* Bounds of the model.                                                    *)
(***************************************************************************)
MaxTasks == 3
MaxConcurrency == 2
MaxPriority == 1

TaskIds == 1..MaxTasks
Priorities == 0..MaxPriority

VARIABLES
  \* ---- queue.ts: the closure state of createAsyncQueue
  tasks,          \* the pending array, a sequence of task ids
  priority,       \* priority[id]: the priority field of task record id, kept
                  \* while the task is pending or running (0 otherwise)
  activeCount,
  paused,
  aborted,
  concurrency,    \* config.concurrency
  needsSort,
  stats,          \* [pending, active, completed, errors, total]
  emptyResolve,   \* TRUE iff emptyPromise/emptyResolve are set (a waiter is armed)
  drainResolve,   \* TRUE iff drainPromise/drainResolve are set
  \* ---- the promises handed out and the operations launched
  created,        \* number of task records created so far
  invoked,        \* invoked[id]: how many times task() of record id was launched
  running,        \* ids whose operation was launched and has not settled yet
  outcome,        \* outcome[id]: state of the promise returned for record id
  settles,        \* settles[id]: number of resolve/reject calls made on it
  refused,        \* the calls (add, addAll) that returned a promise rejected
                  \* with 'Queue aborted'
  \* ---- observers: they record what callers hold and never influence the queue
  observe,        \* the observers a run carries: a subset of
                  \* {"empty", "drain", "batch", "abort", "limit"}
  emptyHanded,    \* the promise onEmpty() returned last: "none" (no call yet),
                  \* "resolved" (returned already resolved), "pending", or
                  \* "fired" (returned pending, resolved since by the queue)
  drainHanded,    \* the same for onDrain()
  batch,          \* the promise returned by the first addAll call: its state
                  \* ("none" before the call), the records behind its member
                  \* promises in input order, the values Promise.all collected
                  \* (0 for a member not fulfilled yet), the rejection reason,
                  \* and the members in the order they fulfilled
  \* ---- the hooks of the configuration
  hooks,          \* registered: which of config.onError, config.onEmpty,
                  \* config.onDrain are set; failure: what a hook does when it
                  \* is called ("none": returns normally, "throws", "rejects":
                  \* returns a rejected promise); called: the hooks the last
                  \* handler called, in order; logged: the console.error calls
                  \* they led to; body, arg: the call a hook makes on the
                  \* queue; armed: the flag that makes it
  highest         \* observer: the largest value config.concurrency has had
                  \* (0 when the run does not carry the observer)

qvars == <<tasks, priority, activeCount, paused, aborted, concurrency, needsSort,
           stats, emptyResolve, drainResolve, created, invoked, running, outcome,
           settles, refused, observe, emptyHanded, drainHanded, batch, hooks,
           highest>>

VARIABLES
  timeout,        \* config.timeout; 0 stands for undefined (no timeout)
  maxAge,         \* config.maxAge as passed in the options; 0 stands for undefined
  errorSharing,   \* config.errorSharing
  now,            \* Date.now()
  inProgress,     \* inProgress[key]: the record stored under key, 0 for none
  records,        \* records[i]: the PromiseRecord created by call i and the
                  \* state of the underlying invocation it started
  callers,        \* callers[c]: the record call c is attached to and the state
                  \* of the promise the wrapper returned to it
  nCalls,         \* number of calls of the wrapped functions so far
  wrappedBy,      \* wrappedBy[c]: the wrapped function call c was made
                  \* through (1 or 2; 0 before the call); the functions
                  \* wrapped by one instance share its inProgress map
  skippedDelete,  \* the invocations whose finally block found another record
                  \* stored under their key
  abortReturned   \* observer: what the last abort(key) call returned ("true" or
                  \* "false"), "none" before the first call

dvars == <<timeout, maxAge, errorSharing, now, inProgress, records, callers,
           nCalls, wrappedBy, skippedDelete, abortReturned>>

VARIABLES
  \* ---- retry.ts: one call of asyncRetry
  retry           \* its options, its locals (attempt, finalAttemptCount,
                  \* lastError), where it is suspended, the abort signal, and
                  \* what its promise settled with

rvars == <<retry>>

VARIABLES
  \* ---- dedupe.ts (ASYNC POLL): one poller made by createAsyncPoller
  poll            \* its options, its closure variables (timerId,
                  \* currentAttempt, polling, aborted, abortHandler,
                  \* currentPromise), the timers and the calls of the polled
                  \* function that are pending, and the promises start()
                  \* returned

pvars == <<poll>>

VARIABLES
  \* ---- cache.ts: one cache made by createAsyncCache and the calls of one
  \* function wrapped by it
  cache           \* its options, the clock getTimestamp reads, the entries
                  \* in least-recently-used order, refreshingKeys, stats, and
                  \* for every call of the wrapped function what it found,
                  \* what it returned and the invocation it made

cvars == <<cache>>

\* what the steps of one component leave unchanged
nonQueue == <<dvars, rvars, pvars, cvars>>
nonDedupe == <<qvars, rvars, pvars, cvars>>
nonRetry == <<qvars, dvars, pvars, cvars>>
nonPoll == <<qvars, dvars, rvars, cvars>>
nonCache == <<qvars, dvars, rvars, pvars>>

(***************************************************************************)
(* The queue's state as one record, so that the helper functions of the    *)
(* source (processNext, checkDrain, clear, processMultiple) can be         *)
(* composed in the order the code calls them.  A handler starts with an    *)
(* empty record of the hooks it called.                                    *)
(***************************************************************************)
QState ==
  [tasks |-> tasks, priority |-> priority, activeCount |-> activeCount,
   paused |-> paused, aborted |-> aborted, concurrency |-> concurrency,
   needsSort |-> needsSort, stats |-> stats, emptyResolve |-> emptyResolve,
   drainResolve |-> drainResolve, created |-> created, invoked |-> invoked,
   running |-> running, outcome |-> outcome, settles |-> settles,
   refused |-> refused, observe |-> observe, emptyHanded |-> emptyHanded,
   drainHanded |-> drainHanded, batch |-> batch,
   hooks |-> [hooks EXCEPT !.called = << >>, !.logged = << >>],
   highest |-> highest]

Commit(s) ==
  \E t \in {s} :   \* s is computed once, then stored field by field
    /\ tasks' = t.tasks
    /\ priority' = t.priority
    /\ activeCount' = t.activeCount
    /\ paused' = t.paused
    /\ aborted' = t.aborted
    /\ concurrency' = t.concurrency
    /\ needsSort' = t.needsSort
    /\ stats' = t.stats
    /\ emptyResolve' = t.emptyResolve
    /\ drainResolve' = t.drainResolve
    /\ created' = t.created
    /\ invoked' = t.invoked
    /\ running' = t.running
    /\ outcome' = t.outcome
    /\ settles' = t.settles
    /\ refused' = t.refused
    /\ observe' = t.observe
    /\ emptyHanded' = t.emptyHanded
    /\ drainHanded' = t.drainHanded
    /\ batch' = t.batch
    /\ hooks' = t.hooks
    /\ highest' = t.highest
    /\ UNCHANGED nonQueue

Max(a, b) == IF a >= b THEN a ELSE b
Min(a, b) == IF a <= b THEN a ELSE b

(***************************************************************************)
(* Promise.all(promises), the promise addAll returns: the value of member  *)
(* i is stored at index i when the member fulfils, the promise fulfils     *)
(* with the stored values once every member has fulfilled, and it rejects  *)
(* with the reason of the first member that rejects.                       *)
(***************************************************************************)
\* the value the operation of record id resolves with: one value per record
ResultOf(id) == id

NoBatch ==
  [state |-> "none", members |-> << >>, values |-> << >>, reason |-> "",
   finished |-> << >>]

IndexOf(seq, id) == CHOOSE i \in 1..Len(seq) : seq[i] = id

\* faulty variant: the values are collected in the order the members finish
PromiseAll_CompletionOrder(b, id, how) ==
  IF b.state # "pending" \/ ~(\E i \in 1..Len(b.members) : b.members[i] = id)
  THEN b
  ELSE IF how = "result"
  THEN LET hole == CHOOSE i \in 1..Len(b.values) :
                     b.values[i] = 0 /\ \A j \in 1..(i - 1) : b.values[j] # 0
           v == [b.values EXCEPT ![hole] = ResultOf(id)]
       IN [b EXCEPT !.values = v,
                    !.finished = Append(@, id),
                    !.state = IF \A j \in 1..Len(v) : v[j] # 0
                              THEN "fulfilled" ELSE "pending"]
  ELSE [b EXCEPT !.state = "rejected", !.reason = how]

PromiseAll(b, id, how) ==
  IF b.state # "pending" \/ ~(\E i \in 1..Len(b.members) : b.members[i] = id)
  THEN b
  ELSE IF how = "result"
  THEN LET v == [b.values EXCEPT ![IndexOf(b.members, id)] = ResultOf(id)]
       IN [b EXCEPT !.values = v,
                    !.finished = Append(@, id),
                    !.state = IF \A j \in 1..Len(v) : v[j] # 0
                              THEN "fulfilled" ELSE "pending"]
  ELSE [b EXCEPT !.state = "rejected", !.reason = how]

\* the first addAll call of an observed run is the one whose promise is followed
Track(s, b) ==
  IF "batch" \in s.observe /\ s.batch.state = "none" THEN [s EXCEPT !.batch = b] ELSE s

(***************************************************************************)
(* A promise settles with the first resolve/reject call; later calls are   *)
(* counted but change nothing.                                             *)
(***************************************************************************)
SettlePromise(s, id, how) ==
  [s EXCEPT !.settles[id] = @ + 1,
            !.outcome[id] = IF @ = "unsettled" THEN how ELSE @,
            !.priority[id] = 0,
            !.batch = IF s.outcome[id] = "unsettled" THEN PromiseAll(@, id, how) ELSE @]

(***************************************************************************)
(* tasks.sort((a, b) => b.priority - a.priority): Array.prototype.sort is  *)
(* stable, so the result is the insertion sort that puts each element      *)
(* behind every element whose priority is not lower.                       *)
(***************************************************************************)
\* faulty variant: an unstable sort, which puts a task before the tasks of its own priority
RECURSIVE InsertByPriority_Unstable(_, _, _)
InsertByPriority_Unstable(seq, id, prio) ==
  IF seq = << >> THEN <<id>>
  ELSE IF prio[Head(seq)] - prio[id] > 0
       THEN <<Head(seq)>> \o InsertByPriority_Unstable(Tail(seq), id, prio)
       ELSE <<id>> \o seq

RECURSIVE InsertByPriority(_, _, _)
InsertByPriority(seq, id, prio) ==
  IF seq = << >> THEN <<id>>
  ELSE IF prio[Head(seq)] - prio[id] >= 0
       THEN <<Head(seq)>> \o InsertByPriority(Tail(seq), id, prio)
       ELSE <<id>> \o seq

RECURSIVE SortByPriority(_, _)
SortByPriority(seq, prio) ==
  IF seq = << >> THEN << >>
  ELSE InsertByPriority(SortByPriority(SubSeq(seq, 1, Len(seq) - 1), prio),
                        seq[Len(seq)], prio)

(***************************************************************************)
(* The observer of the waiters.  Returned(h, st): onEmpty()/onDrain()      *)
(* returned a promise in state st.  Fired(h): the queue called the         *)
(* resolve function of the promise it holds, which is the promise a        *)
(* pending h refers to.                                                    *)
(***************************************************************************)
Returned(s, which, h, st) == IF which \in s.observe THEN st ELSE h
Fired(h) == IF h = "pending" THEN "fired" ELSE h

(***************************************************************************)
(* The call of a configured hook: try { result = hook(); if (result        *)
(* instanceof Promise) result.catch(console.error) } catch (err)           *)
(* { console.error(err) }.  What the hook throws is caught and logged; the *)
(* rejection of the promise it returned is logged by the attached handler. *)
(***************************************************************************)
HookNames == {"onError", "onEmpty", "onDrain"}

\* what the body of a hook does besides returning or failing: nothing, or one
\* call of a method of the queue it is registered on
HookBodies ==
  {"none", "add", "addAll", "clear", "pause", "resume", "setConcurrency"}

NoHooks ==
  [registered |-> {}, failure |-> "none", called |-> << >>, logged |-> << >>,
   body |-> "none", arg |-> 1, armed |-> FALSE]

RECURSIVE add(_, _), addAll(_, _), clear(_), resume(_), setConcurrency(_, _)

\* the call a hook makes on the queue, in the middle of the step that called
\* the hook.  The hook makes it when it finds its flag set and clears the
\* flag first.  arg is the number of tasks given to addAll and the value
\* given to setConcurrency.
Reenter(s) ==
  LET body == s.hooks.body
      n == s.hooks.arg
      room == IF body = "add" THEN s.created < MaxTasks
              ELSE IF body = "addAll" THEN s.created + n <= MaxTasks
              ELSE TRUE
      s1 == [s EXCEPT !.hooks.armed = FALSE]
  IN IF ~s.hooks.armed \/ body = "none" \/ ~(s.aborted \/ room) THEN s
     ELSE IF body = "add" THEN add(s1, 0)
     ELSE IF body = "addAll" THEN addAll(s1, n)
     ELSE IF body = "clear" THEN clear(s1)
     ELSE IF body = "pause" THEN [s1 EXCEPT !.paused = TRUE]
     ELSE IF body = "resume" THEN resume(s1)
     ELSE setConcurrency(s1, n)

CallHook(s, name) ==
  IF name \notin s.hooks.registered THEN s
  ELSE Reenter([s EXCEPT !.hooks.called = Append(@, name),
                        !.hooks.logged = IF s.hooks.failure = "none" THEN @
                                         ELSE Append(@, name)])

(***************************************************************************)
(* checkDrain(): resolve and clear the drain waiter when nothing is        *)
(* pending and nothing is active.                                          *)
(***************************************************************************)
\* faulty variant: the drain waiter is resolved as soon as nothing is pending
checkDrain_PendingOnly(s) ==
  IF Len(s.tasks) = 0
  THEN [s EXCEPT !.drainResolve = FALSE,
                 !.drainHanded = IF s.drainResolve THEN Fired(@) ELSE @]
  ELSE s

checkDrain(s) ==
  IF Len(s.tasks) = 0 /\ s.activeCount = 0
  THEN CallHook([s EXCEPT !.drainResolve = FALSE,
                          !.drainHanded = IF s.drainResolve THEN Fired(@) ELSE @],
                "onDrain")
  ELSE s

(***************************************************************************)
(* processNext(): the dispatch step.                                       *)
(***************************************************************************)
\* faulty variant: the first task is read but not removed from the array
Dispatch_NoShift(s) ==
  LET doSort == s.needsSort /\ Len(s.tasks) > 1
      sorted == IF doSort THEN SortByPriority(s.tasks, s.priority) ELSE s.tasks
      id     == Head(sorted)
  IN [s EXCEPT !.tasks = sorted,
               !.needsSort = IF doSort THEN FALSE ELSE @,
               !.activeCount = @ + 1,
               !.stats.pending = Len(sorted),
               !.stats.active = s.activeCount + 1,
               !.invoked[id] = @ + 1,
               !.running = @ \cup {id}]

\* faulty variant: taking the last pending task does not resolve the empty waiter
Dispatch_NoEmptySignal(s) ==
  LET doSort == s.needsSort /\ Len(s.tasks) > 1
      sorted == IF doSort THEN SortByPriority(s.tasks, s.priority) ELSE s.tasks
      id     == Head(sorted)
      rest   == Tail(sorted)
  IN [s EXCEPT !.tasks = rest,
               !.needsSort = IF doSort THEN FALSE ELSE @,
               !.activeCount = @ + 1,
               !.stats.pending = Len(rest),
               !.stats.active = s.activeCount + 1,
               !.invoked[id] = @ + 1,
               !.running = @ \cup {id}]

\* lines 96-139: sort if needed, shift the first task, count it active,
\* resolve the empty waiter and call the onEmpty hook if it was the last one,
\* launch it
Dispatch(s) ==
  LET doSort == s.needsSort /\ Len(s.tasks) > 1
      sorted == IF doSort THEN SortByPriority(s.tasks, s.priority) ELSE s.tasks
      id     == Head(sorted)
      rest   == Tail(sorted)
      s1     == [s EXCEPT !.tasks = rest,
                          !.needsSort = IF doSort THEN FALSE ELSE @,
                          !.activeCount = @ + 1,
                          !.stats.pending = Len(rest),
                          !.stats.active = s.activeCount + 1,
                          !.emptyResolve = IF Len(rest) = 0 THEN FALSE ELSE @,
                          !.emptyHanded = IF Len(rest) = 0 /\ s.emptyResolve
                                          THEN Fired(@) ELSE @]
      s2     == IF Len(rest) = 0 THEN CallHook(s1, "onEmpty") ELSE s1
  IN [s2 EXCEPT !.invoked[id] = @ + 1,
                !.running = @ \cup {id}]

\* faulty variant: the capacity test is missing from the guard
processNext_NoCapacity(s) ==
  IF s.paused \/ s.aborted \/ Len(s.tasks) = 0
  THEN s
  ELSE Dispatch(s)

processNext(s) ==
  IF s.paused \/ s.aborted \/ s.activeCount >= s.concurrency \/ Len(s.tasks) = 0
  THEN s
  ELSE Dispatch(s)

(***************************************************************************)
(* clear(): reject every pending task, empty the array, resolve the empty  *)
(* waiter, check the drain condition.                                      *)
(***************************************************************************)
RECURSIVE RejectAll(_, _)
RejectAll(s, seq) ==
  IF seq = << >> THEN s
  ELSE RejectAll(SettlePromise(s, Head(seq), "Queue cleared"), Tail(seq))

\* faulty variant: the pending promises are rejected but the records stay in the array
clear_KeepTasks(s) ==
  LET s1 == RejectAll(s, s.tasks)
  IN checkDrain([s1 EXCEPT !.emptyResolve = FALSE,
                           !.emptyHanded = IF s.emptyResolve THEN Fired(@) ELSE @])

\* faulty variant: the array is emptied but the pending promises are not rejected
clear_NoReject(s) ==
  checkDrain([s EXCEPT !.tasks = << >>, !.stats.pending = 0, !.emptyResolve = FALSE])

clear(s) ==
  LET s1 == RejectAll(s, s.tasks)
      s2 == [s1 EXCEPT !.tasks = << >>, !.stats.pending = 0, !.emptyResolve = FALSE,
                       !.emptyHanded = IF s.emptyResolve THEN Fired(@) ELSE @]
  IN checkDrain(s2)

(***************************************************************************)
(* processMultiple(): available is read once, processNext re-checks the    *)
(* capacity on every turn of the loop.                                     *)
(***************************************************************************)
RECURSIVE ProcessLoop(_, _, _)
ProcessLoop(s, i, available) ==
  IF i < available /\ Len(s.tasks) > 0
  THEN ProcessLoop(processNext(s), i + 1, available)
  ELSE s

processMultiple(s) == ProcessLoop(s, 0, s.concurrency - s.activeCount)

(***************************************************************************)
(* Lazily arming the two waiters when work enters an idle queue.           *)
(***************************************************************************)
ArmWaiters(s) == [s EXCEPT !.drainResolve = TRUE, !.emptyResolve = TRUE]

(***************************************************************************)
(* tasks.push({task, resolve, reject, priority}) for a new record.         *)
(***************************************************************************)
PushTask(s, prio) ==
  LET id == s.created + 1
  IN [s EXCEPT !.created = id,
               !.tasks = Append(@, id),
               !.priority[id] = prio,
               !.outcome[id] = "unsettled"]

----------------------------------------------------------------------------
(***************************************************************************)
(* The queue's operations.                                                 *)
(***************************************************************************)
QInit ==
  /\ tasks = << >>
  /\ priority = [id \in TaskIds |-> 0]
  /\ activeCount = 0
  /\ paused \in BOOLEAN            \* !config.autoStart
  /\ aborted \in BOOLEAN           \* config.abortSignal.aborted at construction
  /\ concurrency \in 1..MaxConcurrency
  /\ needsSort = FALSE
  /\ stats = [pending |-> 0, active |-> 0, completed |-> 0, errors |-> 0, total |-> 0]
  /\ emptyResolve = FALSE
  /\ drainResolve = FALSE
  /\ created = 0
  /\ invoked = [id \in TaskIds |-> 0]
  /\ running = {}
  /\ outcome = [id \in TaskIds |-> "none"]
  /\ settles = [id \in TaskIds |-> 0]
  /\ refused = {}
  /\ observe \in SUBSET {"empty", "drain", "batch", "abort", "limit"}
  /\ emptyHanded = "none"
  /\ drainHanded = "none"
  /\ batch = NoBatch
  /\ hooks \in [registered : SUBSET HookNames,
                failure : {"none", "throws", "rejects"},
                called : {<< >>}, logged : {<< >>},
                body : HookBodies, arg : 1..MaxConcurrency,
                armed : {FALSE}]
  /\ highest = IF "limit" \in observe THEN concurrency ELSE 0

\* faulty variant: add does not look at the aborted flag
Add_NoAbortCheck(prio) ==
  /\ created < MaxTasks
  /\ LET s1 == PushTask(QState, prio)
         s2 == [s1 EXCEPT !.needsSort = TRUE,
                          !.stats.pending = Len(s1.tasks),
                          !.stats.total = @ + 1]
         s3 == IF Len(s2.tasks) = 1 /\ s2.activeCount = 0 THEN ArmWaiters(s2) ELSE s2
     IN Commit(processNext(s3))

\* add(task, priority) as a function of the queue's state
add(s, prio) ==
  IF s.aborted
  THEN [s EXCEPT !.refused = @ \cup {"add"}]
  ELSE LET s1 == PushTask(s, prio)
           s2 == [s1 EXCEPT !.needsSort = TRUE,
                            !.stats.pending = Len(s1.tasks),
                            !.stats.total = @ + 1]
           s3 == IF Len(s2.tasks) = 1 /\ s2.activeCount = 0 THEN ArmWaiters(s2) ELSE s2
       IN processNext(s3)

Add(prio) ==
  IF aborted
  THEN Commit(add(QState, prio))
  ELSE /\ created < MaxTasks
       /\ Commit(add(QState, prio))

RECURSIVE PushAll(_, _)
PushAll(s, n) ==
  IF n = 0 THEN s
  ELSE LET s1 == PushTask(s, 0)
       IN PushAll([s1 EXCEPT !.stats.pending = @ + 1, !.stats.total = @ + 1], n - 1)

\* addAll(tasks) with n tasks as a function of the queue's state
addAll(s, n) ==
  IF s.aborted
  THEN Track([s EXCEPT !.refused = @ \cup {"addAll"}],
             [NoBatch EXCEPT !.state = "rejected", !.reason = "Queue aborted"])
  ELSE IF n = 0
  THEN Track(s, [NoBatch EXCEPT !.state = "fulfilled"])
  ELSE LET s1 == PushAll(s, n)
           s2 == [s1 EXCEPT !.needsSort = TRUE]
           s3 == IF Len(s2.tasks) = n /\ s2.activeCount = 0 THEN ArmWaiters(s2) ELSE s2
           s4 == Track(s3, [NoBatch EXCEPT !.state = "pending",
                                           !.members = [i \in 1..n |-> s.created + i],
                                           !.values = [i \in 1..n |-> 0]])
       IN processMultiple(s4)

AddAll(n) ==
  IF aborted \/ n = 0
  THEN Commit(addAll(QState, n))
  ELSE /\ created + n <= MaxTasks
       /\ Commit(addAll(QState, n))

Pause ==
  /\ Commit([QState EXCEPT !.paused = TRUE])

\* the program sets the flag that makes the next hook called call the queue
ArmHook ==
  /\ ~hooks.armed
  /\ Commit([QState EXCEPT !.hooks.armed = TRUE])

\* faulty variant: resume starts one task at most
Resume_ProcessNextOnly ==
  IF paused
  THEN Commit(processNext([QState EXCEPT !.paused = FALSE]))
  ELSE Commit(QState)

\* resume() as a function of the queue's state
resume(s) ==
  IF s.paused THEN processMultiple([s EXCEPT !.paused = FALSE]) ELSE s

Resume ==
  /\ Commit(resume(QState))

Clear ==
  /\ Commit(clear(QState))

\* faulty variant: the handler marks the queue aborted and leaves the pending tasks
AbortHandler_NoClear ==
  /\ ~aborted
  /\ Commit([QState EXCEPT !.aborted = TRUE])

\* abortHandler() as a function of the queue's state
abortHandler(s) == clear([s EXCEPT !.aborted = TRUE])

\* abortHandler, registered once on a signal that was not aborted at construction
AbortHandler ==
  /\ ~aborted
  /\ Commit(abortHandler(QState))

\* faulty variant: the ceiling is changed and no task is started
SetConcurrency_NoProcess(n) ==
  Commit([QState EXCEPT !.concurrency = Max(1, n)])

\* faulty variant: every call starts the next pending task, whatever the ceiling
SetConcurrency_ForceStart(n) ==
  Commit(processNext_NoCapacity([QState EXCEPT !.concurrency = Max(1, n)]))

\* setConcurrency(n) as a function of the queue's state
setConcurrency(s, n) ==
  LET s1 == [s EXCEPT !.concurrency = Max(1, n),
                      !.highest = IF "limit" \in s.observe
                                  THEN Max(@, Max(1, n)) ELSE @]
  IN IF s1.concurrency > s.concurrency THEN processMultiple(s1) ELSE s1

SetConcurrency(n) ==
  /\ Commit(setConcurrency(QState, n))

\* faulty variant: a settlement does not trigger the next dispatch
TaskSettled_NoNext(id, ok) ==
  /\ id \in running
  /\ LET s1 == SettlePromise(QState, id, IF ok THEN "result" ELSE "error")
         s2 == [s1 EXCEPT !.stats.completed = IF ok THEN @ + 1 ELSE @,
                          !.stats.errors = IF ok THEN @ ELSE @ + 1,
                          !.activeCount = @ - 1,
                          !.stats.active = s1.activeCount - 1,
                          !.running = @ \ {id}]
     IN Commit(checkDrain(s2))

\* faulty variant: a rejection stops the pipeline, only a success dispatches
TaskSettled_StopOnError(id, ok) ==
  /\ id \in running
  /\ LET s1 == SettlePromise(QState, id, IF ok THEN "result" ELSE "error")
         s2 == [s1 EXCEPT !.stats.completed = IF ok THEN @ + 1 ELSE @,
                          !.stats.errors = IF ok THEN @ ELSE @ + 1,
                          !.activeCount = @ - 1,
                          !.stats.active = s1.activeCount - 1,
                          !.running = @ \ {id}]
     IN \E s3 \in {checkDrain(s2)} : Commit(IF ok THEN processNext(s3) ELSE s3)

\* faulty variant: the onError hook is called outside try/catch, so that what
\* it throws ends the callback before checkDrain() and processNext()
taskSettled_HookEscapes(s, id, ok) ==
  LET s1 == SettlePromise(s, id, IF ok THEN "result" ELSE "error")
      s2 == [s1 EXCEPT !.stats.completed = IF ok THEN @ + 1 ELSE @,
                       !.stats.errors = IF ok THEN @ ELSE @ + 1,
                       !.activeCount = @ - 1,
                       !.stats.active = s1.activeCount - 1,
                       !.running = @ \ {id}]
      s3 == IF ok THEN s2 ELSE CallHook(s2, "onError")
  IN IF ~ok /\ "onError" \in s.hooks.registered /\ s.hooks.failure = "throws"
     THEN s3
     ELSE processNext(checkDrain(s3))

\* the two callbacks of .then(...) in processNext as a function of the queue's
\* state: settle the task promise, count, call the onError hook on a
\* rejection, checkDrain(), processNext()
taskSettled(s, id, ok) ==
  LET s1 == SettlePromise(s, id, IF ok THEN "result" ELSE "error")
      s2 == [s1 EXCEPT !.stats.completed = IF ok THEN @ + 1 ELSE @,
                       !.stats.errors = IF ok THEN @ ELSE @ + 1,
                       !.activeCount = @ - 1,
                       !.stats.active = s1.activeCount - 1,
                       !.running = @ \ {id}]
      s3 == IF ok THEN s2 ELSE CallHook(s2, "onError")
  IN processNext(checkDrain(s3))

\* the operation of a running task resolves (ok) or rejects (~ok)
TaskSettled(id, ok) ==
  /\ id \in running
  /\ Commit(taskSettled(QState, id, ok))

OnEmpty ==
  IF Len(tasks) = 0
  THEN Commit([QState EXCEPT !.emptyHanded = Returned(QState, "empty", @, "resolved")])
  ELSE Commit([QState EXCEPT !.emptyResolve = TRUE,
                             !.emptyHanded = Returned(QState, "empty", @, "pending")])

\* faulty variant: onDrain() allocates a waiter whatever the state of the queue
OnDrain_AlwaysArm ==
  Commit([QState EXCEPT !.drainResolve = TRUE,
                        !.drainHanded = Returned(QState, "drain", @, "pending")])

OnDrain ==
  IF Len(tasks) = 0 /\ activeCount = 0
  THEN Commit([QState EXCEPT !.drainHanded = Returned(QState, "drain", @, "resolved")])
  ELSE Commit([QState EXCEPT !.drainResolve = TRUE,
                             !.drainHanded = Returned(QState, "drain", @, "pending")])

(***************************************************************************)
(* stats(): the object the caller receives is either the queue's own stats *)
(* object ("internal") or a new object holding its fields ("fresh").       *)
(***************************************************************************)
\* faulty variant: stats: () => stats
statsReturned_Internal == "internal"

\* stats: () => ({ ...stats })
statsReturned == "fresh"

\* a caller of stats() writes to a field of the object it received
StatsMutated ==
  IF statsReturned = "internal"
  THEN Commit([QState EXCEPT !.stats.total = @ + 1])
  ELSE Commit(QState)

\* every operation but setConcurrency
QNextFixed ==
  \/ \E prio \in Priorities : Add(prio)
  \/ \E n \in 0..MaxTasks : AddAll(n)
  \/ Pause
  \/ Resume
  \/ Clear
  \/ AbortHandler
  \/ \E id \in TaskIds, ok \in BOOLEAN : TaskSettled(id, ok)
  \/ OnEmpty
  \/ OnDrain
  \/ StatsMutated

QNext ==
  \/ QNextFixed
  \/ \E n \in 0..MaxConcurrency : SetConcurrency(n)

----------------------------------------------------------------------------
(***************************************************************************)
(* dedupe.ts: one instance of createAsyncDedupe and one wrapped function.  *)
(***************************************************************************)
MaxCalls == 3
MaxTime == 1

Keys == {"k1", "k2"}
CallIds == 1..MaxCalls

NoRecord == [key |-> "none", timestamp |-> 0, subscribers |-> 0, aborted |-> FALSE,
             state |-> "none"]
NoCaller == [joined |-> 0, state |-> "none", obj |-> 0]

DInit ==
  /\ timeout \in 0..MaxTime
  /\ maxAge \in 0..MaxTime
  /\ errorSharing \in BOOLEAN
  /\ now = 0
  /\ inProgress = [k \in Keys |-> 0]
  /\ records = [i \in CallIds |-> NoRecord]
  /\ callers = [c \in CallIds |-> NoCaller]
  /\ wrappedBy = [c \in CallIds |-> 0]
  /\ nCalls = 0
  /\ skippedDelete = {}
  /\ abortReturned = "none"

(***************************************************************************)
(* What caller c receives when the invocation of record i settles.  kind   *)
(* is "value", "Error" (a rejection with an Error instance) or "nonError". *)
(* obj names the object received: i for the value or error object of       *)
(* invocation i, -c for an Error constructed for caller c alone.           *)
(***************************************************************************)
Deliver(c, i, kind) ==
  IF kind = "value"
  THEN [joined |-> i, state |-> "value", obj |-> i]
  ELSE IF c = i \/ errorSharing \/ kind = "Error"
       THEN [joined |-> i, state |-> "error", obj |-> i]
       ELSE [joined |-> i, state |-> "error", obj |-> 0 - c]

\* faulty variant: a record is joined whatever its age
CanJoin_IgnoreTimeout(k) == inProgress[k] # 0

\* faulty variant: an undefined timeout is taken for a timeout that has passed
CanJoin_TimeoutRequired(k) ==
  /\ inProgress[k] # 0
  /\ timeout # 0
  /\ now - records[inProgress[k]].timestamp < timeout

\* the check of lines 61-65: a record is stored under key and has not timed out
CanJoin(k) ==
  /\ inProgress[k] # 0
  /\ (timeout = 0 \/ now - records[inProgress[k]].timestamp < timeout)

\* record.timestamp is read only through the map, so the model keeps it only
\* for the records the map holds
Forget(recs, map) ==
  [i \in CallIds |-> IF \E k \in Keys : map[k] = i THEN recs[i]
                     ELSE [recs[i] EXCEPT !.timestamp = 0]]

\* faulty variant: the wrapper has no finally block
Cleanup_Never(map, i, k) == map

\* faulty variant: the finally block deletes the key whatever record it holds
Cleanup_Unconditional(map, i, k) == [map EXCEPT ![k] = 0]

\* the finally block of the wrapper, run by the invocation of record i
Cleanup(map, i, k) ==
  IF map[k] = i THEN [map EXCEPT ![k] = 0] ELSE map

(***************************************************************************)
(* A call with a key of a function wrapped by the instance; throws says    *)
(* whether the function throws synchronously when it is invoked.  The      *)
(* wrapper of function f looks the key up in the map of the instance.      *)
(***************************************************************************)
Wrapper(f, k, throws) ==
  /\ LET c == nCalls + 1
     IN /\ nCalls' = c
        /\ wrappedBy' = [wrappedBy EXCEPT ![c] = f]
        /\ IF CanJoin(k)
           THEN /\ ~throws
                /\ records' = [records EXCEPT ![inProgress[k]].subscribers = @ + 1]
                /\ callers' = [callers EXCEPT ![c] =
                                 [joined |-> inProgress[k], state |-> "pending", obj |-> 0]]
                /\ UNCHANGED inProgress
           ELSE LET record == [key |-> k, timestamp |-> now, subscribers |-> 1,
                               aborted |-> FALSE,
                               state |-> IF throws THEN "rejected" ELSE "pending"]
                    stored == [inProgress EXCEPT ![k] = c]
                    map == IF throws THEN Cleanup(stored, c, k) ELSE stored
                IN /\ records' = Forget([records EXCEPT ![c] = record], map)
                   /\ callers' = [callers EXCEPT ![c] =
                                    IF throws THEN Deliver(c, c, "Error")
                                    ELSE [joined |-> c, state |-> "pending", obj |-> 0]]
                   /\ inProgress' = map
  /\ UNCHANGED <<timeout, maxAge, errorSharing, now, skippedDelete, abortReturned>>
  /\ UNCHANGED nonDedupe

\* a call of the wrapped function
Call(k, throws) ==
  /\ nCalls < MaxCalls
  /\ Wrapper(1, k, throws)

\* a call of a second function wrapped by the same instance
CallSecond(k, throws) ==
  /\ nCalls < MaxCalls
  /\ Wrapper(2, k, throws)

(***************************************************************************)
(* A call whose wrapped function returns a value that is not a promise.    *)
(* `await fn(...)` takes any value: the wrapper has stored its record and   *)
(* is suspended until the microtask that resumes it with that value, so    *)
(* the call returns a pending promise ("pendingSync": the only way on is   *)
(* the value).  When the key can be joined fn is not invoked and the call  *)
(* is the joining Call.                                                    *)
(***************************************************************************)
CallNonPromise(k) ==
  /\ nCalls < MaxCalls
  /\ ~CanJoin(k)
  /\ LET c == nCalls + 1
         record == [key |-> k, timestamp |-> now, subscribers |-> 1,
                    aborted |-> FALSE, state |-> "pendingSync"]
         map == [inProgress EXCEPT ![k] = c]
     IN /\ nCalls' = c
        /\ records' = Forget([records EXCEPT ![c] = record], map)
        /\ callers' = [callers EXCEPT ![c] = [joined |-> c, state |-> "pending", obj |-> 0]]
        /\ wrappedBy' = [wrappedBy EXCEPT ![c] = 1]
        /\ inProgress' = map
  /\ UNCHANGED <<timeout, maxAge, errorSharing, now, skippedDelete, abortReturned>>
  /\ UNCHANGED nonDedupe

(***************************************************************************)
(* The promise returned by fn for record i settles: the wrapper resumes    *)
(* after its await, settles the shared promise and runs its finally block. *)
(***************************************************************************)
FnSettled(i, kind) ==
  /\ \/ records[i].state = "pending"
     \/ records[i].state = "pendingSync" /\ kind = "value"
  /\ records' = Forget([records EXCEPT ![i].state =
                          IF kind = "value" THEN "resolved" ELSE "rejected"],
                        Cleanup(inProgress, i, records[i].key))
  /\ callers' = [c \in CallIds |->
                   IF callers[c].joined = i THEN Deliver(c, i, kind) ELSE callers[c]]
  /\ inProgress' = Cleanup(inProgress, i, records[i].key)
  /\ skippedDelete' = IF inProgress[records[i].key] \notin {0, i}
                      THEN skippedDelete \cup {i} ELSE skippedDelete
  /\ UNCHANGED <<wrappedBy, timeout, maxAge, errorSharing, now, nCalls, abortReturned>>
  /\ UNCHANGED nonDedupe

\* record.controller.abort() for the records ids, which then leave the map
AbortRecords(ids) ==
  [i \in CallIds |-> IF i \in ids
                     THEN [records[i] EXCEPT !.aborted = TRUE, !.timestamp = 0]
                     ELSE records[i]]

\* faulty variant: the controller is aborted and the record stays in the map
Abort_NoDelete(k) ==
  /\ IF inProgress[k] # 0
     THEN /\ records' = AbortRecords({inProgress[k]})
          /\ abortReturned' = IF "abort" \in observe THEN "true" ELSE abortReturned
     ELSE /\ abortReturned' = IF "abort" \in observe THEN "false" ELSE abortReturned
          /\ UNCHANGED records
  /\ UNCHANGED <<wrappedBy, timeout, maxAge, errorSharing, now, inProgress, callers, nCalls,
                 skippedDelete>>
  /\ UNCHANGED nonDedupe

Abort(k) ==
  /\ IF inProgress[k] # 0
     THEN /\ records' = AbortRecords({inProgress[k]})
          /\ inProgress' = [inProgress EXCEPT ![k] = 0]
          /\ abortReturned' = IF "abort" \in observe THEN "true" ELSE abortReturned
     ELSE /\ abortReturned' = IF "abort" \in observe THEN "false" ELSE abortReturned
          /\ UNCHANGED <<records, inProgress>>
  /\ UNCHANGED <<wrappedBy, timeout, maxAge, errorSharing, now, callers, nCalls, skippedDelete>>
  /\ UNCHANGED nonDedupe

AbortAll ==
  /\ records' = AbortRecords({inProgress[k] : k \in Keys} \ {0})
  /\ inProgress' = [k \in Keys |-> 0]
  /\ UNCHANGED <<wrappedBy, timeout, maxAge, errorSharing, now, callers, nCalls, skippedDelete,
                 abortReturned>>
  /\ UNCHANGED nonDedupe

Reset ==
  /\ records' = AbortRecords({inProgress[k] : k \in Keys} \ {0})
  /\ inProgress' = [k \in Keys |-> 0]
  /\ UNCHANGED <<wrappedBy, timeout, maxAge, errorSharing, now, callers, nCalls, skippedDelete,
                 abortReturned>>
  /\ UNCHANGED nonDedupe

\* time passes; the clock is read only by the timeout check of the wrapper.
\* When an age limit was passed in the options the clock runs one unit past
\* it, so that a record can be seen older than the limit.
Horizon ==
  IF maxAge # 0 THEN maxAge + 1 ELSE IF timeout # 0 THEN MaxTime ELSE 0

Tick ==
  /\ now < Horizon
  /\ now' = now + 1
  /\ UNCHANGED <<wrappedBy, timeout, maxAge, errorSharing, inProgress, records, callers, nCalls,
                 skippedDelete, abortReturned>>
  /\ UNCHANGED nonDedupe

DNext ==
  \/ \E k \in Keys, throws \in BOOLEAN : Call(k, throws)
  \/ \E i \in CallIds, kind \in {"value", "Error", "nonError"} : FnSettled(i, kind)
  \/ \E k \in Keys : Abort(k)
  \/ AbortAll
  \/ Reset
  \/ Tick

----------------------------------------------------------------------------
(***************************************************************************)
(* retry.ts: one call of asyncRetry(operation, options).  The function is  *)
(* a loop with four places where it is suspended: on the operation, on the *)
(* shouldRetry predicate, on the onRetry callback and on the backoff       *)
(* timer.  A thrown value is named by the invocation that produced it and  *)
(* by its form: "Error" for an instance of Error, "other" for anything     *)
(* else, "wrapped" for the new Error(String(e)) made of an "other" value.  *)
(***************************************************************************)
MaxRetries == 2

NoError == [of |-> 0, form |-> "none"]

\* the failure of the k-th invocation of the operation
Failure(k, form) == [of |-> k, form |-> form]

\* new Error('Retry operation aborted')
AbortError == [of |-> 0 - 1, form |-> "Error"]

\* error instanceof Error ? error : new Error(String(error))
ToError(e) == IF e.form = "Error" THEN e ELSE [e EXCEPT !.form = "wrapped"]

NoResult ==
  [kind |-> "none", attempts |-> 0, originalError |-> NoError, value |-> 0]

\* the values tried for the options minTimeout, maxTimeout and factor
MinTimeouts == {1, 50}
MaxTimeouts == {3, 75}
Factors == {1, 2}

\* Math.random() returns one of 0/RandomSteps .. (RandomSteps - 1)/RandomSteps
RandomSteps == 4

\* the values the calls of Math.random() will return, one per backoff
Randoms == [0..(MaxRetries - 1) -> 0..(RandomSteps - 1)]
NoRandoms == [k \in 0..(MaxRetries - 1) |-> 0]

\* retries is the option as passed (nothing validates it, so -1 is possible);
\* shouldRetry, onRetry say whether the option is set; signal is "none" when
\* no abortSignal was passed.  calls counts the invocations of the operation,
\* thrown is what the last failed invocation threw, answer what shouldRetry
\* last returned, logged the number of console.error calls, waits the delays
\* passed to setTimeout so far, firedIn where asyncRetry was when the signal
\* fired ("start": before the call) and firedAt the invocations made by then.
RInit ==
  /\ retry \in [retries : (0 - 1)..MaxRetries, shouldRetry : BOOLEAN,
                onRetry : BOOLEAN, signal : {"none", "idle", "aborted"},
                minTimeout : MinTimeouts, maxTimeout : MaxTimeouts,
                factor : Factors, jitter : BOOLEAN, randoms : Randoms,
                pc : {"idle"}, attempt : {0}, finalAttemptCount : {0},
                calls : {0}, lastError : {NoError}, thrown : {NoError},
                answer : {"none"}, logged : {0}, waits : {<< >>},
                firedIn : {"never", "start"}, firedAt : {0},
                result : {NoResult}]
  /\ retry.firedIn = "start" <=> retry.signal = "aborted"
  /\ ~retry.jitter => retry.randoms = NoRandoms

\* the timing options are of no interest
RPlain ==
  /\ retry.minTimeout = 50 /\ retry.maxTimeout = 75 /\ retry.factor = 2
  /\ ~retry.jitter

\* asyncRetry is not called
RIdle ==
  retry = [retries |-> 0, shouldRetry |-> FALSE, onRetry |-> FALSE,
           signal |-> "none", minTimeout |-> 50, maxTimeout |-> 75,
           factor |-> 2, jitter |-> FALSE, randoms |-> NoRandoms,
           pc |-> "idle", attempt |-> 0, finalAttemptCount |-> 0,
           calls |-> 0, lastError |-> NoError, thrown |-> NoError,
           answer |-> "none", logged |-> 0, waits |-> << >>,
           firedIn |-> "never", firedAt |-> 0, result |-> NoResult]

\* the promise rejects with new Error('Retry operation aborted')
RejectAborted(r) ==
  [r EXCEPT !.pc = "done", !.result = [NoResult EXCEPT !.kind = "aborted"]]

\* faulty variant: the error carries the loop index instead of the count
AfterLoop_Index(r) ==
  IF r.lastError # NoError
  THEN [r EXCEPT !.pc = "done",
                 !.result = [NoResult EXCEPT !.kind = "RetryError",
                                             !.attempts = r.attempt,
                                             !.originalError = r.lastError]]
  ELSE [r EXCEPT !.pc = "done",
                 !.result = [NoResult EXCEPT !.kind = "unexpected"]]

\* after the loop: throw new RetryError(message, lastError, finalAttemptCount),
\* or a plain Error when no error was caught
AfterLoop(r) ==
  IF r.lastError # NoError
  THEN [r EXCEPT !.pc = "done",
                 !.result = [NoResult EXCEPT !.kind = "RetryError",
                                             !.attempts = r.finalAttemptCount,
                                             !.originalError = r.lastError]]
  ELSE [r EXCEPT !.pc = "done",
                 !.result = [NoResult EXCEPT !.kind = "unexpected"]]

\* one turn of the loop up to its first await: the loop condition, then the
\* abort check, whose error is caught, found to be the abort error and
\* thrown again, then operation()
Iterate(r) ==
  IF r.attempt > r.retries THEN AfterLoop(r)
  ELSE LET r1 == [r EXCEPT !.finalAttemptCount = r.attempt + 1]
       IN IF r1.signal = "aborted"
          THEN RejectAborted([r1 EXCEPT !.lastError = ToError(AbortError)])
          ELSE [r1 EXCEPT !.calls = @ + 1, !.pc = "operation"]

RECURSIVE Pow(_, _)
Pow(b, e) == IF e = 0 THEN 1 ELSE b * Pow(b, e - 1)

\* faulty variant: the exponent is the number of the attempt, not its index
Timeout_FromOne(r) ==
  Min(r.maxTimeout, r.minTimeout * Pow(r.factor, r.attempt + 1))

\* Math.min(config.maxTimeout, config.minTimeout * Math.pow(config.factor, attempt))
Timeout(r) == Min(r.maxTimeout, r.minTimeout * Pow(r.factor, r.attempt))

\* Math.floor(timeout * (0.5 + Math.random() * 0.5)) with Math.random() = rnd / RandomSteps
Jittered(ms, rnd) == (ms * (RandomSteps + rnd)) \div (2 * RandomSteps)

\* the delay, then the abort-aware timeout: an aborted signal rejects at
\* once, otherwise setTimeout(..., timeout)
Backoff(r) ==
  LET ms == IF r.jitter THEN Jittered(Timeout(r), r.randoms[r.attempt])
            ELSE Timeout(r)
  IN IF r.signal = "aborted" THEN RejectAborted(r)
     ELSE [r EXCEPT !.pc = "delay", !.waits = Append(@, ms)]

\* after the predicate allowed the retry
AfterPredicate(r) ==
  IF r.onRetry THEN [r EXCEPT !.pc = "onRetry"] ELSE Backoff(r)

\* the catch block up to its first await
Caught(r, err) ==
  LET r1 == [r EXCEPT !.lastError = ToError(err), !.thrown = err]
  IN IF r1.signal = "aborted" THEN RejectAborted(r1)
     ELSE IF r1.attempt = r1.retries THEN AfterLoop(r1)
     ELSE IF r1.shouldRetry THEN [r1 EXCEPT !.pc = "shouldRetry"]
     ELSE AfterPredicate(r1)

RetryCall ==
  /\ retry.pc = "idle"
  /\ retry' = Iterate(retry)
  /\ UNCHANGED nonRetry

\* the promise of the running operation settles: with a value, or rejected
\* with an Error or with something else
OperationSettles(how) ==
  /\ retry.pc = "operation"
  /\ retry' = IF how = "value"
              THEN [retry EXCEPT !.pc = "done",
                                 !.result = [NoResult EXCEPT !.kind = "value",
                                                             !.value = retry.calls]]
              ELSE Caught(retry, Failure(retry.calls, how))
  /\ UNCHANGED nonRetry

\* shouldRetry(lastError) returns true or false, or throws (or rejects); what
\* it throws leaves the catch block and rejects the promise of asyncRetry
ShouldRetryReturns(v) ==
  /\ retry.pc = "shouldRetry"
  /\ retry' = IF v = "true" THEN AfterPredicate([retry EXCEPT !.answer = v])
              ELSE IF v = "false" THEN AfterLoop([retry EXCEPT !.answer = v])
              ELSE [retry EXCEPT !.pc = "done", !.answer = v,
                                 !.result = [NoResult EXCEPT !.kind = "predicateError"]]
  /\ UNCHANGED nonRetry

\* onRetry(lastError, attempt + 1) returns; its failure is logged
OnRetryReturns(ok) ==
  /\ retry.pc = "onRetry"
  /\ retry' = Backoff([retry EXCEPT !.logged = IF ok THEN @ ELSE @ + 1])
  /\ UNCHANGED nonRetry

\* the backoff timer fires: attempt++ and the next turn of the loop
TimerFires ==
  /\ retry.pc = "delay"
  /\ retry' = Iterate([retry EXCEPT !.attempt = @ + 1])
  /\ UNCHANGED nonRetry

\* the abort signal fires; during the backoff its handler rejects the wait
\* faulty variant: the backoff does not listen to the signal
SignalAborts_NoListener ==
  /\ retry.signal = "idle"
  /\ retry' = [retry EXCEPT !.signal = "aborted", !.firedIn = retry.pc,
                            !.firedAt = retry.calls]
  /\ UNCHANGED nonRetry

SignalAborts ==
  /\ retry.signal = "idle"
  /\ LET r1 == [retry EXCEPT !.signal = "aborted", !.firedIn = retry.pc,
                             !.firedAt = retry.calls]
     IN retry' = IF retry.pc = "delay" THEN RejectAborted(r1) ELSE r1
  /\ UNCHANGED nonRetry

RNext ==
  \/ RetryCall
  \/ \E how \in {"value", "Error", "other"} : OperationSettles(how)
  \/ \E v \in {"true", "false", "throws"} : ShouldRetryReturns(v)
  \/ \E ok \in BOOLEAN : OnRetryReturns(ok)
  \/ TimerFires
  \/ SignalAborts

----------------------------------------------------------------------------
(***************************************************************************)
(* dedupe.ts, ASYNC POLL: one poller.  A run is one call of start() and    *)
(* the promise it returned; a poll is one call of the polled function and  *)
(* the executePoll() that awaits it.  changeInterval is not modelled.      *)
(***************************************************************************)
MaxStarts == 2
MaxPolls == 3
MaxAttempts == 2

RunIds == 1..MaxStarts
PollIds == 1..MaxPolls

\* the promise of a run: kind is "none" before start(), "pending", "value",
\* or the message of the PollError it was rejected with; attempt is the
\* attempt the PollError carries; by is the poll whose executePoll() settled
\* it, 0 when stop(), start() or a timer did
NoRun == [kind |-> "none", attempt |-> 0, by |-> 0]

\* a call of the polled function: the run whose promise was currentPromise
\* when it was made, and where its executePoll() is suspended ("fn",
\* "onError") or "gone"
NoPoll == [run |-> 0, state |-> "none"]

\* maxAttempts -1 stands for undefined; onError says whether the option is
\* set; signal is "none" when no abortSignal was passed.  timerId is "null",
\* or refers to a timer that is "pending" or has "fired"; untracked counts
\* the pending timers no variable refers to.  currentPromise is the run
\* whose resolve/reject are held, 0 for null.
PInit ==
  poll \in [maxAttempts : (0 - 1)..MaxAttempts, onError : BOOLEAN,
            signal : {"none", "idle", "aborted"},
            timerId : {"null"}, untracked : {0}, currentAttempt : {0},
            polling : {FALSE}, aborted : {FALSE}, abortHandler : {FALSE},
            currentPromise : {0}, started : {0},
            runs : {[r \in RunIds |-> NoRun]}, nPolls : {0},
            polls : {[i \in PollIds |-> NoPoll]}]

\* the poller is not used
PIdle ==
  poll = [maxAttempts |-> 0 - 1, onError |-> FALSE, signal |-> "none",
          timerId |-> "null", untracked |-> 0, currentAttempt |-> 0,
          polling |-> FALSE, aborted |-> FALSE, abortHandler |-> FALSE,
          currentPromise |-> 0, started |-> 0,
          runs |-> [r \in RunIds |-> NoRun], nPolls |-> 0,
          polls |-> [i \in PollIds |-> NoPoll]]

\* currentPromise.resolve(...) / currentPromise.reject(new PollError(...))
SettleRun(p, run, kind, by) ==
  IF p.runs[run].kind = "pending"
  THEN [p EXCEPT !.runs[run] = [kind |-> kind, attempt |-> p.currentAttempt,
                                by |-> by]]
  ELSE p

cleanup(p) ==
  [p EXCEPT !.timerId = "null", !.polling = FALSE, !.currentPromise = 0,
            !.abortHandler = FALSE]

\* faulty variant: the promise is rejected and the poller goes on polling
stop_StillPolling(p, reason) ==
  IF ~p.polling THEN p
  ELSE LET p1 == [p EXCEPT !.currentPromise = 0, !.abortHandler = FALSE]
       IN IF p.currentPromise # 0
          THEN SettleRun(p1, p.currentPromise, reason, 0)
          ELSE p1

stop(p, reason) ==
  IF ~p.polling THEN p
  ELSE LET p1 == [p EXCEPT !.currentPromise = 0, !.polling = FALSE,
                           !.timerId = "null", !.abortHandler = FALSE]
       IN IF p.currentPromise # 0
          THEN SettleRun(p1, p.currentPromise, reason, 0)
          ELSE p1

\* timerId = setTimeout(executePoll, currentInterval): a pending timer the
\* variable referred to is still pending
SetTimer(p) ==
  [p EXCEPT !.untracked = IF p.timerId = "pending" THEN @ + 1 ELSE @,
            !.timerId = "pending"]

\* faulty variant: the attempt that reaches maxAttempts is not the last one
executePoll_OneMore(p) ==
  IF ~p.polling \/ p.aborted \/ p.currentPromise = 0 THEN p
  ELSE IF p.maxAttempts # 0 - 1 /\ p.currentAttempt > p.maxAttempts
  THEN cleanup(SettleRun(p, p.currentPromise,
                         "Polling reached maximum attempts", 0))
  ELSE [p EXCEPT !.currentAttempt = @ + 1,
                 !.nPolls = @ + 1,
                 !.polls[p.nPolls + 1] = [run |-> p.currentPromise, state |-> "fn"]]

\* executePoll() up to its await
executePoll(p) ==
  IF ~p.polling \/ p.aborted \/ p.currentPromise = 0 THEN p
  ELSE IF p.maxAttempts # 0 - 1 /\ p.currentAttempt >= p.maxAttempts
  THEN cleanup(SettleRun(p, p.currentPromise,
                         "Polling reached maximum attempts", 0))
  ELSE [p EXCEPT !.currentAttempt = @ + 1,
                 !.nPolls = @ + 1,
                 !.polls[p.nPolls + 1] = [run |-> p.currentPromise, state |-> "fn"]]

\* the end of the catch block: reject the run with 'Polling failed after n
\* attempts'; with currentPromise null the TypeError leaves executePoll()
RejectFailed(p, i) ==
  LET p1 == [p EXCEPT !.polls[i].state = "gone"]
  IN IF p.currentPromise # 0
     THEN cleanup(SettleRun(p1, p.currentPromise, "Polling failed", i))
     ELSE p1

\* the catch block up to its await
Catch(p, i) ==
  IF p.onError THEN [p EXCEPT !.polls[i].state = "onError"] ELSE RejectFailed(p, i)

Start ==
  /\ poll.started < MaxStarts
  /\ LET run == poll.started + 1
         p1  == stop(poll, "Previous polling operation superseded")
         p2  == [p1 EXCEPT !.started = run]
     IN poll' =
          IF p2.signal = "aborted"
          THEN [p2 EXCEPT !.runs[run] = [kind |-> "Polling operation aborted",
                                         attempt |-> 0, by |-> 0]]
          ELSE [p2 EXCEPT !.currentAttempt = 0,
                          !.polling = TRUE,
                          !.abortHandler = (p2.signal # "none"),
                          !.currentPromise = run,
                          !.runs[run] = [NoRun EXCEPT !.kind = "pending"],
                          !.untracked = @ + 1]
  /\ UNCHANGED nonPoll

Stop ==
  /\ poll.polling
  /\ poll' = stop(poll, "Polling stopped")
  /\ UNCHANGED nonPoll

\* a pending timer fires and calls executePoll()
TimerExpires(tracked) ==
  /\ IF tracked THEN poll.timerId = "pending" ELSE poll.untracked > 0
  /\ LET p1 == IF tracked THEN [poll EXCEPT !.timerId = "fired"]
                          ELSE [poll EXCEPT !.untracked = @ - 1]
         p2 == executePoll(p1)
     IN /\ p2.nPolls <= MaxPolls
        /\ poll' = p2
  /\ UNCHANGED nonPoll

\* the polled function resolves and shouldContinue(result, attempt) returns
\* cont; with currentPromise null, resolve throws into the catch block
FnResolves(i, cont) ==
  /\ poll.polls[i].state = "fn"
  /\ poll' = IF cont
             THEN SetTimer([poll EXCEPT !.polls[i].state = "gone"])
             ELSE IF poll.currentPromise # 0
             THEN cleanup(SettleRun([poll EXCEPT !.polls[i].state = "gone"],
                                    poll.currentPromise, "value", i))
             ELSE Catch(poll, i)
  /\ UNCHANGED nonPoll

FnRejects(i) ==
  /\ poll.polls[i].state = "fn"
  /\ poll' = Catch(poll, i)
  /\ UNCHANGED nonPoll

\* config.onError(error, attempt) returns true or false, or throws
OnErrorReturns(i, v) ==
  /\ poll.polls[i].state = "onError"
  /\ poll' = IF v = "true" THEN SetTimer([poll EXCEPT !.polls[i].state = "gone"])
             ELSE IF v = "false" THEN RejectFailed(poll, i)
             ELSE [poll EXCEPT !.polls[i].state = "gone"]
  /\ UNCHANGED nonPoll

\* the abort signal fires; abortHandler runs if it is registered
PollSignalAborts ==
  /\ poll.signal = "idle"
  /\ LET p1 == [poll EXCEPT !.signal = "aborted"]
     IN poll' = IF poll.abortHandler
                THEN stop([p1 EXCEPT !.aborted = TRUE], "Polling operation aborted")
                ELSE p1
  /\ UNCHANGED nonPoll

PNext ==
  \/ Start
  \/ Stop
  \/ \E tracked \in BOOLEAN : TimerExpires(tracked)
  \/ \E i \in PollIds, cont \in BOOLEAN : FnResolves(i, cont)
  \/ \E i \in PollIds : FnRejects(i)
  \/ \E i \in PollIds, v \in {"true", "false", "throws"} : OnErrorReturns(i, v)
  \/ PollSignalAborts

----------------------------------------------------------------------------
(***************************************************************************)
(* cache.ts, ASYNC CACHE.  One cache and one function wrapped by it.  The  *)
(* wrapped function is asynchronous: every invocation returns a promise    *)
(* that settles in a later step.  The value invocation i resolves (or      *)
(* rejects) with is the number i; a value stored with set() is 0.          *)
(***************************************************************************)
MaxLookups == 2
MaxClock == 2
CacheKeys == {"a", "b"}
LookupIds == 1..MaxLookups

NoEntry == [value |-> 0, expiry |-> 0, isError |-> FALSE]
NoLookup ==
  [key |-> "none", path |-> "none", found |-> NoEntry, during |-> FALSE,
   outcome |-> "none", value |-> 0, fn |-> "none", kind |-> "none", now |-> 0]
NoStats == [hits |-> 0, misses |-> 0, staleHits |-> 0, errors |-> 0]

CInit ==
  cache \in [ttl : {1}, maxSize : {1, 2},
             staleWhileRevalidate : BOOLEAN, cacheErrorResults : BOOLEAN,
             clock : {1}, order : {<< >>},
             entries : {[k \in CacheKeys |-> NoEntry]},
             refreshingKeys : {{}}, stats : {NoStats},
             nCalls : {0}, lookups : {[i \in LookupIds |-> NoLookup]}]

CIdle ==
  cache = [ttl |-> 1, maxSize |-> 2,
           staleWhileRevalidate |-> FALSE, cacheErrorResults |-> FALSE,
           clock |-> 1, order |-> << >>,
           entries |-> [k \in CacheKeys |-> NoEntry],
           refreshingKeys |-> {}, stats |-> NoStats,
           nCalls |-> 0, lookups |-> [i \in LookupIds |-> NoLookup]]

\* the keys the store holds
Stored(c) == {c.order[n] : n \in 1..Len(c.order)}

Without(seq, k) == SelectSeq(seq, LAMBDA x : x # k)

\* cache.get(key) of the store: a key it holds becomes the most recently used
Touch(c, k) ==
  IF k \in Stored(c) THEN [c EXCEPT !.order = Append(Without(@, k), k)] ELSE c

\* cache.delete(key) of the store
Remove(c, k) ==
  [c EXCEPT !.order = Without(@, k), !.entries[k] = NoEntry]

\* cache.set(key, entry) of the store: a new key evicts the least recently
\* used one when the store is full
Store(c, k, e) ==
  LET room == IF k \notin Stored(c) /\ Len(c.order) >= c.maxSize
              THEN Remove(c, Head(c.order))
              ELSE c
  IN [room EXCEPT !.order = Append(Without(@, k), k), !.entries[k] = e]

pruneExpired(c) ==
  LET gone == {k \in Stored(c) : c.entries[k].expiry < c.clock}
  IN [c EXCEPT !.order = SelectSeq(@, LAMBDA x : x \notin gone),
               !.entries = [k \in CacheKeys |->
                              IF k \in gone THEN NoEntry ELSE @[k]]]

\* the refresh or the lookup that is waiting for invocation i
Fresh(c, i, isError) ==
  [value |-> i, expiry |-> c.lookups[i].now + c.ttl, isError |-> isError]

\* safeFn up to its first await, with the faulty variant that starts a
\* refresh for every reader of a stale entry
safeFn_EveryReader(c, k, prune) ==
  LET i == c.nCalls + 1
      existing == c.entries[k]
      c1 == [Touch(c, k) EXCEPT !.nCalls = i,
                                !.lookups[i].key = k,
                                !.lookups[i].now = c.clock,
                                !.lookups[i].found = existing,
                                !.lookups[i].during = k \in c.refreshingKeys]
      served == IF existing.isError THEN "error" ELSE "value"
  IN IF k \in Stored(c) /\ existing.expiry > c.clock
     THEN [c1 EXCEPT !.stats.hits = @ + 1,
                     !.lookups[i].path = "hit",
                     !.lookups[i].outcome = served,
                     !.lookups[i].value = existing.value]
     ELSE IF k \in Stored(c) /\ c.staleWhileRevalidate
     THEN [c1 EXCEPT !.stats.staleHits = @ + 1,
                     !.refreshingKeys = @ \cup {k},
                     !.lookups[i].fn = "inflight",
                     !.lookups[i].kind = "refresh",
                     !.lookups[i].path = "stale",
                     !.lookups[i].outcome = served,
                     !.lookups[i].value = existing.value]
     ELSE LET c2 == IF prune THEN pruneExpired(c1) ELSE c1
          IN [c2 EXCEPT !.stats.misses = @ + 1,
                        !.lookups[i].path = "miss",
                        !.lookups[i].outcome = "pending",
                        !.lookups[i].fn = "inflight",
                        !.lookups[i].kind = "miss"]

\* safeFn up to its first await; prune is the outcome of Math.random() < 0.1
safeFn(c, k, prune) ==
  LET i == c.nCalls + 1
      existing == c.entries[k]
      c1 == [Touch(c, k) EXCEPT !.nCalls = i,
                                !.lookups[i].key = k,
                                !.lookups[i].now = c.clock,
                                !.lookups[i].found = existing,
                                !.lookups[i].during = k \in c.refreshingKeys]
      served == IF existing.isError THEN "error" ELSE "value"
  IN IF k \in Stored(c) /\ existing.expiry > c.clock
     THEN [c1 EXCEPT !.stats.hits = @ + 1,
                     !.lookups[i].path = "hit",
                     !.lookups[i].outcome = served,
                     !.lookups[i].value = existing.value]
     ELSE IF k \in Stored(c) /\ c.staleWhileRevalidate
     THEN LET c2 == IF k \notin c.refreshingKeys
                    THEN [c1 EXCEPT !.refreshingKeys = @ \cup {k},
                                    !.lookups[i].fn = "inflight",
                                    !.lookups[i].kind = "refresh"]
                    ELSE c1
          IN [c2 EXCEPT !.stats.staleHits = @ + 1,
                        !.lookups[i].path = "stale",
                        !.lookups[i].outcome = served,
                        !.lookups[i].value = existing.value]
     ELSE LET c2 == IF prune THEN pruneExpired(c1) ELSE c1
          IN [c2 EXCEPT !.stats.misses = @ + 1,
                        !.lookups[i].path = "miss",
                        !.lookups[i].outcome = "pending",
                        !.lookups[i].fn = "inflight",
                        !.lookups[i].kind = "miss"]

\* cachedFn(key)
Lookup(k, prune) ==
  /\ cache.nCalls < MaxLookups
  /\ cache' = safeFn(cache, k, prune)
  /\ UNCHANGED nonCache

\* the promise of invocation i resolves
CacheFnResolves(i) ==
  /\ cache.lookups[i].fn = "inflight"
  /\ LET k == cache.lookups[i].key
         c1 == Store([cache EXCEPT !.lookups[i].fn = "resolved"],
                     k, Fresh(cache, i, FALSE))
     IN cache' = IF cache.lookups[i].kind = "refresh"
                 THEN [c1 EXCEPT !.refreshingKeys = @ \ {k}]
                 ELSE [c1 EXCEPT !.lookups[i].outcome = "value",
                                 !.lookups[i].value = i]
  /\ UNCHANGED nonCache

\* the promise of invocation i rejects
CacheFnRejects(i) ==
  /\ cache.lookups[i].fn = "inflight"
  /\ LET k == cache.lookups[i].key
         c1 == [cache EXCEPT !.lookups[i].fn = "rejected"]
         c2 == IF cache.cacheErrorResults
               THEN [Store(c1, k, Fresh(cache, i, TRUE))
                       EXCEPT !.stats.errors = @ + 1]
               ELSE c1
     IN cache' = IF cache.lookups[i].kind = "refresh"
                 THEN [c2 EXCEPT !.refreshingKeys = @ \ {k}]
                 ELSE [c2 EXCEPT !.lookups[i].outcome = "error",
                                 !.lookups[i].value = i]
  /\ UNCHANGED nonCache

\* the clock read by getTimestamp advances
ClockAdvances ==
  /\ cache.clock < MaxClock
  /\ cache' = [cache EXCEPT !.clock = @ + 1]
  /\ UNCHANGED nonCache

\* cache.delete(key)
CacheDelete(k) ==
  /\ cache' = Remove(cache, k)
  /\ UNCHANGED nonCache

\* cache.clear()
CacheClear ==
  /\ cache' = [cache EXCEPT !.order = << >>,
                            !.entries = [k \in CacheKeys |-> NoEntry]]
  /\ UNCHANGED nonCache

\* cache.set(key, 0) with the default ttl
CacheSet(k) ==
  /\ cache' = Store(cache, k, [value |-> 0, expiry |-> cache.clock + cache.ttl,
                               isError |-> FALSE])
  /\ UNCHANGED nonCache

\* cache.prune()
CachePrune ==
  /\ cache' = pruneExpired(cache)
  /\ UNCHANGED nonCache

CNext ==
  \/ \E k \in CacheKeys, prune \in BOOLEAN : Lookup(k, prune)
  \/ \E i \in LookupIds : CacheFnResolves(i)
  \/ \E i \in LookupIds : CacheFnRejects(i)
  \/ ClockAdvances
  \/ \E k \in CacheKeys : CacheDelete(k)
  \/ CacheClear
  \/ \E k \in CacheKeys : CacheSet(k)
  \/ CachePrune

----------------------------------------------------------------------------
(***************************************************************************)
(* Specifications.  Spec runs a queue, DedupeSpec a dedupe instance.       *)
(***************************************************************************)
vars == <<qvars, dvars, rvars, pvars, cvars>>

\* the component a specification does not run stays as constructed
QIdle ==
  /\ tasks = << >>
  /\ priority = [id \in TaskIds |-> 0]
  /\ activeCount = 0
  /\ paused = FALSE
  /\ aborted = FALSE
  /\ concurrency = 1
  /\ needsSort = FALSE
  /\ stats = [pending |-> 0, active |-> 0, completed |-> 0, errors |-> 0, total |-> 0]
  /\ emptyResolve = FALSE
  /\ drainResolve = FALSE
  /\ created = 0
  /\ invoked = [id \in TaskIds |-> 0]
  /\ running = {}
  /\ outcome = [id \in TaskIds |-> "none"]
  /\ settles = [id \in TaskIds |-> 0]
  /\ refused = {}
  /\ observe = {}
  /\ emptyHanded = "none"
  /\ drainHanded = "none"
  /\ batch = NoBatch
  /\ hooks = NoHooks
  /\ highest = 0
DIdle ==
  /\ timeout = 0
  /\ maxAge = 0
  /\ errorSharing = TRUE
  /\ now = 0
  /\ inProgress = [k \in Keys |-> 0]
  /\ records = [i \in CallIds |-> NoRecord]
  /\ callers = [c \in CallIds |-> NoCaller]
  /\ wrappedBy = [c \in CallIds |-> 0]
  /\ nCalls = 0
  /\ skippedDelete = {}
  /\ abortReturned = "none"

Init == QInit /\ DIdle /\ RIdle /\ PIdle /\ CIdle /\ observe = {} /\ hooks = NoHooks
Next == QNext
Spec == Init /\ [][Next]_vars

\* a queue whose concurrency is never reconfigured
FixedSpec == Init /\ [][QNextFixed]_vars

\* a queue whose started operations all settle in the end and which does not
\* stay paused for ever
LiveSpec ==
  /\ Init /\ [][Next]_vars
  /\ WF_vars(\E id \in TaskIds, ok \in BOOLEAN : TaskSettled(id, ok))
  /\ WF_vars(Resume)

DedupeInit == DInit /\ QIdle /\ RIdle /\ PIdle /\ CIdle /\ maxAge = 0
DedupeNext == DNext
DedupeSpec == DedupeInit /\ [][DedupeNext]_vars

\* a dedupe instance created with { maxAge: M } and no timeout
MaxAgeInit == DInit /\ QIdle /\ RIdle /\ PIdle /\ CIdle /\ timeout = 0 /\ maxAge # 0
MaxAgeNext == DNext
MaxAgeSpec == MaxAgeInit /\ [][MaxAgeNext]_vars

\* a dedupe instance without timeout whose callers of abort(key) are observed
AbortInit ==
  /\ DInit /\ timeout = 0 /\ maxAge = 0
  /\ QInit /\ ~paused /\ ~aborted /\ concurrency = 1 /\ observe = {"abort"}
  /\ hooks = NoHooks
  /\ RIdle /\ PIdle /\ CIdle
AbortNext ==
  \/ \E k \in Keys, throws \in BOOLEAN : Call(k, throws)
  \/ \E i \in CallIds, kind \in {"value", "Error", "nonError"} : FnSettled(i, kind)
  \/ \E k \in Keys : Abort(k)
  \/ AbortAll
  \/ Reset
AbortSpec == AbortInit /\ [][AbortNext]_vars

\* a dedupe instance without timeout around a function that may also return
\* a value that is not a promise
NonPromiseInit == DInit /\ QIdle /\ RIdle /\ PIdle /\ CIdle /\ timeout = 0 /\ maxAge = 0
NonPromiseNext ==
  \/ \E k \in Keys, throws \in BOOLEAN : Call(k, throws)
  \/ \E k \in Keys : CallNonPromise(k)
  \/ \E i \in CallIds, kind \in {"value", "Error", "nonError"} : FnSettled(i, kind)
  \/ \E k \in Keys : Abort(k)
  \/ AbortAll
  \/ Reset
NonPromiseSpec == NonPromiseInit /\ [][NonPromiseNext]_vars

\* a dedupe instance without timeout that wraps two functions
SharedInit == DInit /\ QIdle /\ RIdle /\ PIdle /\ CIdle /\ timeout = 0 /\ maxAge = 0
SharedNext ==
  \/ \E k \in Keys, throws \in BOOLEAN : Call(k, throws)
  \/ \E k \in Keys, throws \in BOOLEAN : CallSecond(k, throws)
  \/ \E i \in CallIds, kind \in {"value", "Error", "nonError"} : FnSettled(i, kind)
SharedSpec == SharedInit /\ [][SharedNext]_vars

\* one call of asyncRetry
RetryInit == RInit /\ RPlain /\ QIdle /\ DIdle /\ PIdle /\ CIdle
RetryNext == RNext
RetrySpec == RetryInit /\ [][RetryNext]_vars

\* one call of asyncRetry with any timing options, the other options unset
BackoffInit ==
  /\ RInit
  /\ ~retry.shouldRetry /\ ~retry.onRetry /\ retry.signal = "none"
  /\ QIdle /\ DIdle /\ PIdle /\ CIdle
BackoffNext ==
  \/ RetryCall
  \/ \E how \in {"value", "Error", "other"} : OperationSettles(how)
  \/ TimerFires
BackoffSpec == BackoffInit /\ [][BackoffNext]_vars

\* one poller
PollInit == PInit /\ QIdle /\ DIdle /\ RIdle /\ CIdle
PollNext == PNext
PollSpec == PollInit /\ [][PollNext]_vars

\* a poller with maxAttempts set, whose polled function always resolves and
\* whose shouldContinue always returns true
MaxAttemptsInit ==
  /\ PInit
  /\ poll.maxAttempts >= 0 /\ ~poll.onError /\ poll.signal = "none"
  /\ QIdle /\ DIdle /\ RIdle /\ CIdle
MaxAttemptsNext ==
  \/ Start
  \/ Stop
  \/ \E tracked \in BOOLEAN : TimerExpires(tracked)
  \/ \E i \in PollIds : FnResolves(i, TRUE)
MaxAttemptsSpec == MaxAttemptsInit /\ [][MaxAttemptsNext]_vars

\* one cache created with { staleWhileRevalidate: true } and one function
\* wrapped by it
CacheInit ==
  CInit /\ cache.staleWhileRevalidate /\ QIdle /\ DIdle /\ RIdle /\ PIdle
CacheNext == CNext
CacheSpec == CacheInit /\ [][CacheNext]_vars

\* a queue whose callers of onEmpty() and onDrain() are observed.  The waiters
\* depend on tasks.length and activeCount alone, so the tasks are added with
\* the default priority.
WaiterInit ==
  QInit /\ DIdle /\ RIdle /\ PIdle /\ CIdle /\ observe = {"empty", "drain"} /\ hooks = NoHooks
WaiterNext ==
  \/ Add(0)
  \/ \E n \in 0..MaxTasks : AddAll(n)
  \/ Pause
  \/ Resume
  \/ Clear
  \/ AbortHandler
  \/ \E id \in TaskIds, ok \in BOOLEAN : TaskSettled(id, ok)
  \/ OnEmpty
  \/ OnDrain
  \/ \E n \in 0..MaxConcurrency : SetConcurrency(n)
WaiterSpec == WaiterInit /\ [][WaiterNext]_vars

(***************************************************************************)
(* The queue with the promise of its first addAll call followed.           *)
(***************************************************************************)
BatchInit == QInit /\ DIdle /\ RIdle /\ PIdle /\ CIdle /\ observe = {"batch"} /\ hooks = NoHooks
BatchNext ==
  \/ Add(0)
  \/ \E n \in 0..MaxTasks : AddAll(n)
  \/ Pause
  \/ Resume
  \/ Clear
  \/ AbortHandler
  \/ \E id \in TaskIds, ok \in BOOLEAN : TaskSettled(id, ok)
  \/ \E n \in 0..MaxConcurrency : SetConcurrency(n)
BatchSpec == BatchInit /\ [][BatchNext]_vars

(***************************************************************************)
(* The queue configured with the three hooks, all of which fail in the     *)
(* same way: each throws, or each returns a rejected promise.              *)
(***************************************************************************)
HookInit ==
  /\ QInit /\ DIdle /\ RIdle /\ PIdle /\ CIdle /\ observe = {}
  /\ hooks.registered = HookNames /\ hooks.failure # "none"
  /\ hooks.body = "none" /\ hooks.arg = 1
HookNext ==
  \/ Add(0)
  \/ \E n \in 0..MaxTasks : AddAll(n)
  \/ Pause
  \/ Resume
  \/ Clear
  \/ AbortHandler
  \/ \E id \in TaskIds, ok \in BOOLEAN : TaskSettled(id, ok)
  \/ OnEmpty
  \/ OnDrain
  \/ \E n \in 0..MaxConcurrency : SetConcurrency(n)
HookSpec == HookInit /\ [][HookNext]_vars

\* the queue configured with the three hooks, which return normally and can
\* call a method of the queue from their body
ReentrantInit ==
  /\ QInit /\ DIdle /\ RIdle /\ PIdle /\ CIdle /\ observe = {"limit"}
  /\ hooks.registered = HookNames /\ hooks.failure = "none"
  /\ hooks.body # "none"
  /\ hooks.body \notin {"addAll", "setConcurrency"} => hooks.arg = 1
  /\ ~aborted
ReentrantNext ==
  \/ Add(0)
  \/ Pause
  \/ Resume
  \/ Clear
  \/ \E id \in TaskIds, ok \in BOOLEAN : TaskSettled(id, ok)
  \/ \E n \in 1..MaxConcurrency : SetConcurrency(n)
  \/ ArmHook
ReentrantSpec == ReentrantInit /\ [][ReentrantNext]_vars

----------------------------------------------------------------------------
(***************************************************************************)
(* The claims.                                                             *)
(***************************************************************************)

\* C1: in a queue created with concurrency N >= 1 and never reconfigured, the
\* number of started-but-unsettled tasks, which is what activeCount counts,
\* is at most N in every reachable state.
C1_ActiveWithinLimit ==
  /\ activeCount = Cardinality(running)
  /\ activeCount <= concurrency

\* the queue runs at its ceiling while a task waits
C1_Witness ==
  /\ activeCount = concurrency
  /\ concurrency > 1
  /\ Len(tasks) > 0


\* The calls that invoked the underlying function.
Invocations == {i \in CallIds : records[i].state # "none"}

\* C2: with no timeout configured, a call made with a key while the record of
\* an earlier call with that key is still registered (its invocation in flight,
\* no abort or reset since) invokes nothing and is attached to that record, so
\* one key never has two invocations in flight that were not aborted; and every
\* caller attached to an invocation that has settled holds its outcome: the
\* same value, or the same error object when errorSharing is enabled.
C2_SingleFlight ==
  /\ [][\A k \in Keys :
          (timeout = 0 /\ inProgress[k] # 0 /\ \E throws \in BOOLEAN : Call(k, throws)) =>
             /\ records[inProgress[k]].state = "pending"
             /\ Invocations' = Invocations
             /\ callers'[nCalls'].joined = inProgress[k]
             /\ inProgress' = inProgress]_vars
  /\ [](timeout = 0 =>
         \A i, j \in CallIds :
           (/\ records[i].state = "pending" /\ ~records[i].aborted
            /\ records[j].state = "pending" /\ ~records[j].aborted
            /\ records[i].key = records[j].key) => i = j)
  /\ [](timeout = 0 =>
         \A c \in CallIds : callers[c].joined # 0 =>
           LET i == callers[c].joined
           IN /\ records[i].state = "pending" => callers[c].state = "pending"
              /\ records[i].state = "resolved" =>
                   callers[c].state = "value" /\ callers[c].obj = i
              /\ records[i].state = "rejected" =>
                   /\ callers[c].state = "error"
                   /\ errorSharing => callers[c].obj = i)

\* every call the bound allows used one key, one invocation was made, and each
\* caller holds the error object that invocation rejected with
C2_Witness ==
  /\ timeout = 0 /\ errorSharing
  /\ nCalls = MaxCalls
  /\ Invocations = {1}
  /\ records[1].subscribers = MaxCalls
  /\ \A c \in CallIds : callers[c] = [joined |-> 1, state |-> "error", obj |-> 1]


\* The tasks a step starts.
Dispatched == running' \ running

\* C3: every task a step starts has the highest priority among the tasks pending
\* at that moment and, among the pending tasks of that priority, is the one that
\* was added first (ids grow in the order of addition): each started task comes
\* before each task left pending.
C3_DispatchOrder ==
  [][\A d \in Dispatched : \A i \in 1..Len(tasks') :
        \/ priority'[d] > priority'[tasks'[i]]
        \/ priority'[d] = priority'[tasks'[i]] /\ d < tasks'[i]]_vars

\* a task added last was started first because of its priority, and the two
\* tasks it overtook wait in the order they were added
C3_Witness ==
  \E d \in running :
    /\ Len(tasks) >= 2
    /\ d > tasks[1]
    /\ priority[d] > priority[tasks[1]]
    /\ priority[tasks[1]] = priority[tasks[2]]
    /\ tasks[1] < tasks[2]

\* C4: the step in which the invocation of record i settles removes the entry of
\* its key if the entry holds record i and changes no entry otherwise, so a
\* record that replaced it stays registered; and a call made with a key whose
\* entry holds a record that has not timed out is attached to that record,
\* whatever older invocations of the key have finished meanwhile.
C4_CleanupOwnRecord ==
  /\ [][\A i \in CallIds :
          (records[i].state = "pending" /\ records'[i].state # "pending") =>
            \A k \in Keys :
              inProgress'[k] = IF inProgress[k] = i THEN 0 ELSE inProgress[k]]_vars
  /\ [][\A k \in Keys :
          (CanJoin(k) /\ \E throws \in BOOLEAN : Call(k, throws)) =>
             /\ callers'[nCalls'].joined = inProgress[k]
             /\ inProgress' = inProgress]_vars

\* record 1 was replaced under its key by record 2 after the timeout passed; its
\* invocation has finished since and found record 2 in the map; record 2 is
\* still registered, and the third call was attached to it
C4_Witness ==
  /\ 1 \in skippedDelete
  /\ ~records[1].aborted
  /\ records[1].state = "resolved"
  /\ inProgress[records[1].key] = 2
  /\ records[2].state = "pending"
  /\ callers[3].joined = 2


Own == {"result", "error"}

\* What holds of the promise of every task record: resolve/reject is called on
\* it once at most; it carries the operation's own outcome only if the
\* operation was started, and 'Queue cleared' only if the task left the array
\* without ever being started.
TaskPromisesOk ==
  \A id \in TaskIds :
    /\ settles[id] <= 1
    /\ outcome[id] \in Own => invoked[id] >= 1 /\ id \notin running
    /\ outcome[id] = "Queue cleared" =>
         invoked[id] = 0 /\ id \notin running /\ \A i \in 1..Len(tasks) : tasks[i] # id
    /\ invoked[id] >= 1 => outcome[id] # "Queue cleared"
    /\ id <= created => outcome[id] \in Own \cup {"Queue cleared", "unsettled"}

\* C5 as stated: every promise returned by add settles once at most, with the
\* operation's own result or error (only if it was started) or with 'Queue
\* cleared' (only if it was removed while pending), and with nothing else.
C5_Original ==
  /\ TaskPromisesOk
  /\ "add" \notin refused

\* C5 as amended: the same, with a fourth outcome: add called on an aborted queue
\* returns a promise rejected with 'Queue aborted', and then creates no task.
C5_Outcomes ==
  /\ TaskPromisesOk
  /\ "add" \in refused => aborted

\* the three outcomes of a task promise and the refusal, side by side
C5_Witness ==
  /\ \E a, b, c \in TaskIds :
       outcome[a] = "result" /\ outcome[b] = "error" /\ outcome[c] = "Queue cleared"
  /\ "add" \in refused

Settled(id) == outcome[id] \in Own \cup {"Queue cleared"}

\* C6: if every started operation settles in the end and the queue does not stay
\* paused for ever (the fairness of LiveSpec), the promise of every admitted task
\* settles in the end.  The promise addAll returns is Promise.all of the promises
\* of its tasks, so it settles once they all have.
C6_EverySettles ==
  \A id \in TaskIds : (outcome[id] = "unsettled") ~> Settled(id)

\* every task the bound allows ran to its own outcome on a queue not aborted
C6_Witness ==
  /\ ~aborted
  /\ created = MaxTasks
  /\ \A id \in TaskIds : outcome[id] \in Own

\* C7: clear() rejects every pending task with 'Queue cleared' and empties the
\* array; it leaves activeCount, completed, errors, total and paused as they
\* were, and the running tasks running; a running task, whenever it leaves the
\* running set, does so with its own outcome.
C7_ClearFrame ==
  /\ [][Clear =>
          /\ \A i \in 1..Len(tasks) : outcome'[tasks[i]] = "Queue cleared"
          /\ tasks' = << >>
          /\ activeCount' = activeCount
          /\ stats'.completed = stats.completed
          /\ stats'.errors = stats.errors
          /\ stats'.total = stats.total
          /\ paused' = paused
          /\ running' = running
          /\ \A id \in running : outcome'[id] = "unsettled"]_vars
  /\ [][\A id \in running \ running' : outcome'[id] \in Own]_vars

\* a task was cleared while a task added before it is still running, on a queue
\* that was not aborted
C7_Witness ==
  /\ ~aborted
  /\ \E c \in TaskIds, r \in running : outcome[c] = "Queue cleared" /\ r < c

\* C8: the abort handler rejects every pending task with 'Queue cleared'; from
\* then on the queue stays aborted and no step starts a task; a task that was
\* running leaves the running set with its own outcome and is counted in
\* completed or errors.
C8_Abort ==
  /\ [][AbortHandler =>
          /\ \A i \in 1..Len(tasks) : outcome'[tasks[i]] = "Queue cleared"
          /\ tasks' = << >>
          /\ running' = running
          /\ \A id \in running : outcome'[id] = "unsettled"]_vars
  /\ [][aborted => aborted' /\ Dispatched = {} /\ tasks' = << >>]_vars
  /\ [][aborted =>
          \A id \in running \ running' :
            /\ outcome'[id] \in Own
            /\ stats'.completed + stats'.errors = stats.completed + stats.errors + 1]_vars

\* after the abort: a pending task was cleared and a task added before it, which
\* was running then, is still running
C8_Witness ==
  /\ aborted
  /\ \E c \in TaskIds, r \in running : outcome[c] = "Queue cleared" /\ r < c
  /\ activeCount = Cardinality(running)

\* C9: on an aborted queue add and addAll return a promise rejected with 'Queue
\* aborted' and change nothing else; the queue stays aborted.
C9_AbortedRefuses ==
  /\ [][aborted => aborted']_vars
  /\ [][(aborted /\ \E prio \in Priorities : Add(prio)) =>
          /\ "add" \in refused'
          /\ UNCHANGED <<tasks, priority, activeCount, paused, aborted, concurrency,
                         needsSort, stats, emptyResolve, drainResolve, created,
                         invoked, running, outcome, settles>>]_vars
  /\ [][(aborted /\ \E n \in 0..MaxTasks : AddAll(n)) =>
          /\ "addAll" \in refused'
          /\ UNCHANGED <<tasks, priority, activeCount, paused, aborted, concurrency,
                         needsSort, stats, emptyResolve, drainResolve, created,
                         invoked, running, outcome, settles>>]_vars

\* both calls were refused on a queue that had done work before it was aborted,
\* and the counters still add up to the tasks admitted before
C9_Witness ==
  /\ aborted
  /\ refused = {"add", "addAll"}
  /\ stats.total = MaxTasks - 1
  /\ created = stats.total
  /\ Len(tasks) = 0

\* The parts of C10 about a paused queue: a step that begins and ends paused
\* starts no task, and a task that leaves the running set while the queue is
\* paused does so with its own outcome.
PausedHolds ==
  /\ [][paused /\ paused' => Dispatched = {}]_vars
  /\ [][paused => \A id \in running \ running' : outcome'[id] \in Own]_vars

\* C10 as stated: ... and resume() on a paused queue that is not aborted starts
\* min(pending, concurrency - activeCount) tasks.
C10_Original ==
  /\ PausedHolds
  /\ [][(paused /\ ~aborted /\ Resume) =>
          Cardinality(Dispatched) = Min(Len(tasks), concurrency - activeCount)]_vars

\* C10 as amended: ... starts min(pending, concurrency - activeCount) tasks, or
\* none when activeCount is above the ceiling (after setConcurrency lowered it).
C10_PauseResume ==
  /\ PausedHolds
  /\ [][(paused /\ ~aborted /\ Resume) =>
          Cardinality(Dispatched) =
            Max(0, Min(Len(tasks), concurrency - activeCount))]_vars

\* Task 2 runs and task 1, added before it with a lower priority, still waits;
\* nothing has settled.  Task 1 was added to a paused queue (an unpaused one
\* would have started it at once), so task 2 was started by resume().
C10_Witness ==
  /\ ~paused /\ ~aborted
  /\ created = 2
  /\ tasks = <<1>>
  /\ running = {2}
  /\ priority[2] > priority[1]
  /\ stats.completed = 0 /\ stats.errors = 0

\* C11: when the operation of a running task rejects, the promise of that task
\* is rejected with the error and no other promise changes; errors grows by
\* one and completed, paused, aborted and the ceiling stay as they were; and
\* the dispatch that follows is the one processNext makes once the task has left
\* the active count, which is the dispatch that follows a success too.
C11_ErrorIsolated ==
  /\ [][\A id \in TaskIds : TaskSettled(id, FALSE) =>
          /\ outcome'[id] = "error"
          /\ \A j \in TaskIds \ {id} : outcome'[j] = outcome[j]
          /\ stats'.errors = stats.errors + 1
          /\ stats'.completed = stats.completed
          /\ paused' = paused /\ aborted' = aborted /\ concurrency' = concurrency]_vars
  /\ [][\A id \in TaskIds, ok \in BOOLEAN : TaskSettled(id, ok) =>
          LET s == processNext([QState EXCEPT !.activeCount = @ - 1,
                                               !.running = @ \ {id}])
          IN /\ tasks' = s.tasks
             /\ running' = s.running
             /\ activeCount' = s.activeCount
             /\ invoked' = s.invoked]_vars

\* the only task that has settled rejected, and a task added after it runs on
\* a queue of concurrency 1
C11_Witness ==
  /\ concurrency = 1 /\ ~paused /\ ~aborted
  /\ stats.errors = 1 /\ stats.completed = 0
  /\ \E a \in TaskIds, b \in running :
       /\ a < b
       /\ outcome[a] = "error"
       /\ \A j \in TaskIds \ {a} : outcome[j] \in {"none", "unsettled"}

Idle == Len(tasks) = 0 /\ activeCount = 0

\* C12: a promise onDrain() returns while the queue is not idle is unresolved;
\* it stays unresolved through every step that ends with a task pending or
\* active and is resolved by the first step that ends idle, so it is never
\* pending in an idle state; a call in a later busy period, after that
\* resolution, again returns an unresolved promise.
C12_DrainWaiter ==
  /\ [][(OnDrain /\ ~Idle) => drainHanded' = "pending" /\ drainResolve']_vars
  /\ [](drainHanded = "pending" => drainResolve /\ ~Idle)
  /\ [][drainHanded = "pending" =>
          drainHanded' = IF Idle' THEN "fired" ELSE "pending"]_vars

\* a promise handed out by onDrain() was resolved when the queue became idle,
\* after one task completed and another was cleared
C12_Witness ==
  /\ drainHanded = "fired"
  /\ Idle
  /\ stats.completed = 1
  /\ \E c \in TaskIds : outcome[c] = "Queue cleared"

\* C13: a promise onEmpty() returns while tasks are pending is unresolved; it
\* stays unresolved through every step that ends with a task pending and is
\* resolved by the first step that ends with none, be it a dispatch of the last
\* pending task, clear() or the abort; running tasks do not delay it.
C13_EmptyWaiter ==
  /\ [][(OnEmpty /\ Len(tasks) > 0) => emptyHanded' = "pending" /\ emptyResolve']_vars
  /\ [](emptyHanded = "pending" => emptyResolve /\ Len(tasks) > 0)
  /\ [][emptyHanded = "pending" =>
          emptyHanded' = IF Len(tasks') = 0 THEN "fired" ELSE "pending"]_vars

\* a promise handed out by onEmpty() was resolved by the dispatch of the last
\* pending task: nothing was cleared, and tasks are still running
C13_Witness ==
  /\ emptyHanded = "fired"
  /\ Len(tasks) = 0
  /\ activeCount > 0
  /\ \A id \in TaskIds : outcome[id] # "Queue cleared"

C15_Original == activeCount <= concurrency

\* C15 as amended: activeCount exceeds the ceiling only after setConcurrency has
\* lowered the ceiling below it: a step that does not lower the ceiling keeps
\* activeCount within it, and no step raises activeCount above the ceiling.
C15_CeilingUnlessLowered ==
  /\ [][(activeCount <= concurrency /\ concurrency' >= concurrency) =>
          activeCount' <= concurrency']_vars
  /\ [][activeCount' <= Max(concurrency', activeCount)]_vars

\* the ceiling was lowered to 1 while two tasks were running
C15_Witness ==
  /\ concurrency = 1
  /\ activeCount = 2
  /\ Cardinality(running) = 2

\* The tasks removed by clear() or by the abort while they were pending.
Cleared == {id \in TaskIds : outcome[id] = "Queue cleared"}

\* C16 as stated: between operations, total = completed + errors + size() +
\* activeCount(), after any sequence of add, addAll, clear, abort and task
\* completions.
C16_Original ==
  stats.total = stats.completed + stats.errors + Len(tasks) + activeCount

\* C16 as amended: a task removed while pending stays counted in total and is
\* counted nowhere else, so between operations total = completed + errors +
\* size() + activeCount() + the number of tasks rejected with 'Queue cleared'.
C16_Accounting ==
  stats.total = stats.completed + stats.errors + Len(tasks) + activeCount
                + Cardinality(Cleared)

\* one task completed, one failed and one was cleared
C16_Witness ==
  /\ stats.total = 3
  /\ stats.completed = 1
  /\ stats.errors = 1
  /\ Cardinality(Cleared) = 1

\* C17: between operations stats.pending is the length of the pending array and
\* stats.active is activeCount; and a caller who writes to the object stats()
\* returned changes nothing in the queue.
C17_StatsMirror ==
  /\ [](stats.pending = Len(tasks) /\ stats.active = activeCount)
  /\ [][StatsMutated => UNCHANGED qvars]_vars

\* three tasks of the default priority, two running and one waiting: the state
\* addAll of three operations leaves an idle queue of concurrency 2 in
C17_Witness ==
  /\ stats.total = 3 /\ created = 3
  /\ stats.pending = 1 /\ Len(tasks) = 1
  /\ stats.active = 2 /\ activeCount = 2
  /\ stats.completed = 0 /\ stats.errors = 0
  /\ \A id \in TaskIds : priority[id] = 0

\* C18: setConcurrency(n) sets the ceiling to max(1, n); when that raises the
\* ceiling of a queue that is neither paused nor aborted, the call itself
\* starts pending tasks, as many as the new ceiling leaves room for, and ends
\* with activeCount at the new ceiling (or above) or with nothing pending.
C18_RaiseStarts ==
  /\ [][\A n \in 0..MaxConcurrency : SetConcurrency(n) =>
          concurrency' = Max(1, n)]_vars
  /\ [][\A n \in 0..MaxConcurrency :
          (SetConcurrency(n) /\ Max(1, n) > concurrency /\ ~paused /\ ~aborted) =>
             /\ Cardinality(Dispatched) =
                  Max(0, Min(Len(tasks), Max(1, n) - activeCount))
             /\ activeCount' >= concurrency' \/ Len(tasks') = 0]_vars

\* two tasks run under the highest ceiling although three were admitted and
\* the first is among the running: the task of higher priority that runs with
\* it overtook the one still pending
C18_Witness ==
  /\ ~paused /\ ~aborted
  /\ concurrency = MaxConcurrency
  /\ activeCount = concurrency
  /\ Len(tasks) >= 1
  /\ 1 \in running
  /\ \E d \in running : d > tasks[1] /\ priority[d] > priority[tasks[1]]
  /\ stats.completed = 0 /\ stats.errors = 0

\* C19: a setConcurrency(n) that puts the ceiling below activeCount stops no
\* running task, settles nothing and starts nothing; and whatever the step, a
\* task is started only when activeCount was below the ceiling in force, so
\* that after the start activeCount is at most the ceiling.
C19_LoweringKeepsRunning ==
  /\ [][\A n \in 0..MaxConcurrency :
          (SetConcurrency(n) /\ Max(1, n) < activeCount) =>
             /\ running' = running
             /\ activeCount' = activeCount
             /\ tasks' = tasks
             /\ outcome' = outcome
             /\ invoked' = invoked]_vars
  /\ [][Dispatched # {} => activeCount' <= concurrency']_vars

\* the ceiling was lowered below the number of running tasks while a task is
\* pending on a queue that is neither paused nor aborted
C19_Witness ==
  /\ ~paused /\ ~aborted
  /\ activeCount > concurrency
  /\ Len(tasks) > 0

\* C20: the promise addAll(ops) returns on a queue that is not aborted is
\* fulfilled as soon as every task of ops has completed successfully, and
\* its value lists the result of ops[i] at position i whatever order the
\* tasks finished in; addAll([]) returns a promise already fulfilled with the
\* empty list and changes no queue state; an abort that finds a task of ops
\* still pending rejects the promise.
AllSucceeded(b) ==
  Len(b.members) > 0 /\ \A i \in 1..Len(b.members) : outcome[b.members[i]] = "result"

C20_AddAll ==
  /\ [](batch.state = "fulfilled" =>
          batch.values = [i \in 1..Len(batch.members) |-> ResultOf(batch.members[i])])
  /\ [](AllSucceeded(batch) <=> (batch.state = "fulfilled" /\ Len(batch.members) > 0))
  /\ [][\A n \in 1..MaxTasks :
          (AddAll(n) /\ ~aborted /\ batch.state = "none") =>
             /\ batch'.state = "pending"
             /\ batch'.members = [i \in 1..n |-> created + i]
             /\ created' = created + n]_vars
  /\ [][(AddAll(0) /\ ~aborted) =>
          /\ UNCHANGED <<tasks, priority, activeCount, paused, aborted, concurrency,
                         needsSort, stats, emptyResolve, drainResolve, created,
                         invoked, running, outcome, settles, refused>>
          /\ batch.state = "none" =>
                batch'.state = "fulfilled" /\ batch'.values = << >>]_vars
  /\ [][(AbortHandler /\ batch.state = "pending"
            /\ \E i \in 1..Len(batch.members), k \in 1..Len(tasks) :
                  tasks[k] = batch.members[i]) =>
          batch'.state = "rejected" /\ batch'.reason = "Queue cleared"]_vars

\* a batch of two or more was fulfilled after its tasks finished in an order
\* that is not the order of the input
C20_Witness ==
  /\ batch.state = "fulfilled"
  /\ Len(batch.members) >= 2
  /\ batch.finished # batch.members

\* C22: the operation of a task is invoked once at most, and a step invokes
\* it only by dispatching the task: the task was in the pending array (or is
\* added by this very step), leaves it and joins the running ones; a task
\* whose promise was rejected with 'Queue cleared' is not in the array any
\* more and no later step invokes it.
C22_InvokedOnce ==
  /\ [](\A id \in TaskIds : invoked[id] <= 1)
  /\ [][\A id \in TaskIds : invoked'[id] # invoked[id] =>
          /\ invoked'[id] = invoked[id] + 1
          /\ id \in Dispatched
          /\ id > created \/ \E i \in 1..Len(tasks) : tasks[i] = id
          /\ \A i \in 1..Len(tasks') : tasks'[i] # id]_vars
  /\ [][\A id \in TaskIds : outcome[id] = "Queue cleared" =>
          /\ invoked'[id] = 0
          /\ id \notin running'
          /\ \A i \in 1..Len(tasks') : tasks'[i] # id]_vars

\* a task was cleared while pending; a task added after it was started and
\* completed, and the cleared one was never invoked
C22_Witness ==
  \E a, b \in TaskIds :
    /\ a < b
    /\ outcome[a] = "Queue cleared" /\ invoked[a] = 0
    /\ outcome[b] = "result" /\ invoked[b] = 1

\* C23: with errorSharing disabled, once the shared invocation has failed,
\* every caller attached to its record is rejected, no two of them hold the
\* identical error object, and the record stands for one invocation.
C23_Original ==
  ~errorSharing =>
    \A i \in CallIds : records[i].state = "rejected" =>
      \A c, d \in CallIds :
        (callers[c].joined = i /\ callers[d].joined = i) =>
          /\ callers[c].state = "error"
          /\ c # d => callers[c].obj # callers[d].obj

\* the age of the record stored under key k, as the wrapper computes it
Age(k) == now - records[inProgress[k]].timestamp

\* C24: with a timeout T configured, a call with a key whose record is
\* younger than T is attached to that record and invokes nothing; a call with
\* a key whose record has age T or more makes a new invocation, whose record
\* takes the place of the old one under the key, and is attached to the new
\* record; no call changes what another caller is attached to, and every
\* caller receives the outcome of the invocation it is attached to.
C24_TimeoutReplaces ==
  /\ [][\A k \in Keys :
          (/\ timeout # 0 /\ inProgress[k] # 0 /\ Age(k) < timeout
           /\ \E throws \in BOOLEAN : Call(k, throws)) =>
             /\ Invocations' = Invocations
             /\ callers'[nCalls'].joined = inProgress[k]
             /\ inProgress' = inProgress]_vars
  /\ [][\A k \in Keys :
          (/\ timeout # 0 /\ inProgress[k] # 0 /\ Age(k) >= timeout
           /\ \E throws \in BOOLEAN : Call(k, throws)) =>
             LET c == nCalls'
             IN /\ Invocations' = Invocations \cup {c} /\ c \notin Invocations
                /\ callers'[c].joined = c
                /\ records'[c].key = k
                /\ inProgress'[k] = IF records'[c].state = "pending" THEN c ELSE 0
                /\ \A d \in CallIds \ {c} : callers'[d] = callers[d]]_vars
  /\ [][\A c \in CallIds :
          callers[c].joined # 0 => callers'[c].joined = callers[c].joined]_vars
  /\ [](timeout # 0 =>
         \A c \in CallIds : callers[c].joined # 0 =>
           LET i == callers[c].joined
           IN /\ records[i].state = "pending" => callers[c].state = "pending"
              /\ records[i].state = "resolved" =>
                   callers[c].state = "value" /\ callers[c].obj = i
              /\ records[i].state = "rejected" => callers[c].state = "error")

\* the second call joined the first while it was young; the third came with
\* the same key after the timeout and made its own invocation; the first two
\* callers hold the value of the first invocation, the third the failure of
\* its own
C24_Witness ==
  /\ timeout # 0
  /\ callers[1] = [joined |-> 1, state |-> "value", obj |-> 1]
  /\ callers[2] = [joined |-> 1, state |-> "value", obj |-> 1]
  /\ callers[3].joined = 3 /\ callers[3].state = "error"
  /\ records[3].key = records[1].key
  /\ ~records[1].aborted /\ ~records[3].aborted

\* C25: with maxAge M passed in the options and no timeout, a record older
\* than M is stale: a call with a key whose record was created more than M
\* ago and is still in flight is not attached to that record; it makes a new
\* invocation and is attached to it.
C25_Original ==
  [][\A k \in Keys :
       (/\ maxAge # 0 /\ timeout = 0 /\ inProgress[k] # 0 /\ Age(k) > maxAge
        /\ \E throws \in BOOLEAN : Call(k, throws)) =>
          /\ nCalls' \in Invocations' \ Invocations
          /\ callers'[nCalls'].joined = nCalls']_vars

\* C26: abort(key) returns true exactly when the map holds a record under
\* key; it then fires the signal of that record and deletes the entry;
\* entries and records of other keys, and every caller, stay as they are;
\* when the map holds no record under key the call returns false and
\* changes nothing.
C26_Abort ==
  [][\A k \in Keys : Abort(k) =>
       /\ abortReturned' = IF inProgress[k] # 0 THEN "true" ELSE "false"
       /\ inProgress'[k] = 0
       /\ \A j \in Keys \ {k} : inProgress'[j] = inProgress[j]
       /\ \A i \in CallIds :
            IF i = inProgress[k]
            THEN records'[i].aborted /\ records'[i].state = records[i].state
            ELSE records'[i] = records[i]
       /\ callers' = callers
       /\ inProgress[k] = 0 => UNCHANGED <<inProgress, records, callers, nCalls>>]_vars

\* abort(key) has just returned true for one key while the record of the
\* other key is still registered and in flight, and the callers of the
\* aborted record still wait
C26_Witness ==
  /\ abortReturned = "true"
  /\ \E i, j \in CallIds :
       /\ records[i].aborted /\ records[i].state = "pending"
       /\ inProgress[records[i].key] = 0
       /\ callers[i].state = "pending"
       /\ records[j].state = "pending" /\ ~records[j].aborted
       /\ records[j].key # records[i].key
       /\ inProgress[records[j].key] = j

\* What a caller holds once the dedupe instance itself has rejected it with
\* its named abort condition, an error whose message starts with 'Operation
\* aborted'.  The wrapper and the abort functions construct no error, so no
\* step of the model produces it: a caller holds "value" or "error", the
\* outcome of the wrapped function.
DedupeAborted == "Operation aborted"

\* C27: a caller attached to a record that abort(key), abortAll() or reset()
\* aborted is rejected with the dedupe-abort condition: once it has settled,
\* that condition is what it holds, never an outcome of the wrapped function.
C27_Original ==
  \A c \in CallIds :
    (/\ callers[c].joined # 0
     /\ records[callers[c].joined].aborted
     /\ callers[c].state # "pending") => callers[c].state = DedupeAborted

\* C28: a call that invokes a wrapped function which throws synchronously
\* or returns a value that is not a promise returns a rejected promise, and
\* when it returns the map holds no record of it under its key.
C28_Original ==
  [][\A k \in Keys :
       (CallNonPromise(k) \/ (~CanJoin(k) /\ Call(k, TRUE))) =>
          /\ callers'[nCalls'].state = "error"
          /\ inProgress'[k] # nCalls']_vars

InFlight == {i \in CallIds : records[i].state \in {"pending", "pendingSync"}}

\* C29: no record outlives its operation: every record the map holds belongs
\* to an invocation that has not settled, so once every invocation made
\* through the instance has settled the map is empty (inProgressCount() is 0
\* and isInProgress(key) is false for every key).
C29_NoLeftover ==
  /\ \A k \in Keys : inProgress[k] # 0 => inProgress[k] \in InFlight
  /\ InFlight = {} => \A k \in Keys : inProgress[k] = 0

\* every call the bound allows made its own invocation and all have settled:
\* the first was superseded under its key after the timeout and finished with
\* another record in the map, another was removed by an abort before it
\* finished, and the map is empty
C29_Witness ==
  /\ InFlight = {}
  /\ Invocations = CallIds
  /\ skippedDelete # {}
  /\ \E i \in CallIds : records[i].aborted
  /\ \A k \in Keys : inProgress[k] = 0


\* the call of asyncRetry ended on a failure of the last attempt the retries
\* allow, or on shouldRetry returning false for a failure
Exhausted ==
  /\ retry.pc = "done" /\ retry.result.kind # "value"
  /\ retry.calls > 0 /\ retry.calls = retry.retries + 1

Refused == retry.pc = "done" /\ retry.answer = "false"

\* C30 as stated: at most retries + 1 invocations (none for a negative
\* retries), a success ends the call with the value of that invocation, and a
\* call that ended on the failure of its last allowed attempt or on
\* shouldRetry returning false is rejected with a RetryError whose attempts is
\* the number of invocations and whose originalError is that failure itself.
C30_Original ==
  /\ retry.calls <= IF retry.retries < 0 THEN 0 ELSE retry.retries + 1
  /\ retry.result.kind = "value"
       => retry.pc = "done" /\ retry.result.value = ResultOf(retry.calls)
  /\ Exhausted \/ Refused
       => /\ retry.result.kind = "RetryError"
          /\ retry.result.attempts = retry.calls
          /\ retry.result.originalError = retry.thrown

\* C30, amended: as above, but the RetryError is owed only while the abort
\* signal has not fired (a fired signal rejects with the abort Error
\* instead), and its originalError is the failure when that is an Error and
\* otherwise a new Error made of its string form.
C30_Retry ==
  /\ retry.calls <= IF retry.retries < 0 THEN 0 ELSE retry.retries + 1
  /\ retry.result.kind = "value"
       => retry.pc = "done" /\ retry.result.value = ResultOf(retry.calls)
  /\ (Exhausted \/ Refused) /\ retry.signal # "aborted"
       => /\ retry.result.kind = "RetryError"
          /\ retry.result.attempts = retry.calls
          /\ retry.result.originalError = ToError(retry.thrown)
  /\ retry.result.kind = "RetryError" => Exhausted \/ Refused

\* the retries ran out after the largest number of attempts
C30_Witness ==
  /\ Exhausted /\ retry.result.kind = "RetryError"
  /\ retry.calls = MaxRetries + 1 /\ retry.result.attempts = MaxRetries + 1
\* the handlers of the queue that can reach a hook, with their arguments
Handlers ==
  [op : {"add"}, arg : Priorities, ok : {TRUE}]
    \cup [op : {"addAll"}, arg : 0..MaxTasks, ok : {TRUE}]
    \cup [op : {"resume", "clear", "abortHandler"}, arg : {0}, ok : {TRUE}]
    \cup [op : {"setConcurrency"}, arg : 0..MaxConcurrency, ok : {TRUE}]
    \cup [op : {"taskSettled"}, arg : TaskIds, ok : BOOLEAN]

\* the handler can run in state s (the guards of the actions)
Allowed(s, h) ==
  CASE h.op = "add" -> s.aborted \/ s.created < MaxTasks
    [] h.op = "addAll" -> s.aborted \/ s.created + h.arg <= MaxTasks
    [] h.op = "abortHandler" -> ~s.aborted
    [] h.op = "taskSettled" -> h.arg \in s.running
    [] OTHER -> TRUE

Handle(s, h) ==
  CASE h.op = "add" -> add(s, h.arg)
    [] h.op = "addAll" -> addAll(s, h.arg)
    [] h.op = "resume" -> resume(s)
    [] h.op = "clear" -> clear(s)
    [] h.op = "abortHandler" -> abortHandler(s)
    [] h.op = "setConcurrency" -> setConcurrency(s, h.arg)
    [] h.op = "taskSettled" -> taskSettled(s, h.arg, h.ok)

\* the same queue with hooks that return normally
Quiet(s) == [s EXCEPT !.hooks.failure = "none"]

\* everything but the failure of the hooks and the log of it: the pending
\* tasks, the operations launched, the counters, the flags, the waiters, the
\* promises handed out and the hooks called
Core(s) == [s EXCEPT !.hooks.failure = "none", !.hooks.logged = << >>]

\* C21: with failing onError, onEmpty and onDrain hooks, every handler leaves
\* the queue in the state it leaves it in when the hooks return normally
\* (same pending tasks, same operations launched, same counters, waiters and
\* task promise outcomes, same hooks called), every failure is logged and
\* nothing else, and every task promise holds the result or the error of its
\* own operation or 'Queue cleared', never what a hook threw.
C21_HookFailure ==
  /\ \A h \in Handlers :
       Allowed(QState, h) => Core(Handle(QState, h)) = Core(Handle(Quiet(QState), h))
  /\ hooks.failure # "none" => hooks.logged = hooks.called
  /\ \A id \in TaskIds :
       outcome[id] \in {"none", "unsettled", "result", "error", "Queue cleared"}

\* a task rejected, its onError hook failed and was logged, then the onDrain
\* hook failed and was logged, after a failed onEmpty hook at the dispatch
C21_Witness ==
  /\ hooks.failure = "throws"
  /\ hooks.logged = <<"onError", "onDrain">>
  /\ stats.errors = 1 /\ stats.completed = 1
  /\ \E id \in TaskIds : outcome[id] = "error"
\* C31: once the abort signal has fired asyncRetry invokes the operation no
\* more (the number of invocations stays what it was when the signal fired);
\* a signal already set at the call means no invocation at all; a signal
\* that fires during a backoff wait rejects the promise with 'Retry
\* operation aborted' in that very step, the timer not having fired.
C31_AbortStops ==
  /\ retry.signal = "aborted" => retry.calls = retry.firedAt
  /\ retry.firedIn = "start" => retry.calls = 0
  /\ retry.firedIn = "delay"
       => retry.pc = "done" /\ retry.result.kind = "aborted"

\* the signal fired during the second backoff wait
C31_Witness ==
  /\ retry.firedIn = "delay" /\ retry.result.kind = "aborted"
  /\ retry.calls = 2 /\ Len(retry.waits) = 2
\* min(maxTimeout, minTimeout * factor^k) for the options of the run
FullWait(k) == Min(retry.maxTimeout, retry.minTimeout * Pow(retry.factor, k))

\* C32: the wait that follows the k-th failed attempt (k from 0) is
\* min(maxTimeout, minTimeout * factor^k) when jitter is off, and between
\* half of that value, rounded down, and that value when jitter is on; with
\* minTimeout 50, maxTimeout 75, factor 2 and no jitter the waits are 50, then
\* 75.
C32_Backoff ==
  /\ \A i \in 1..Len(retry.waits) :
       IF retry.jitter
       THEN /\ retry.waits[i] <= FullWait(i - 1)
            /\ retry.waits[i] >= FullWait(i - 1) \div 2
       ELSE retry.waits[i] = FullWait(i - 1)
  /\ ( /\ ~retry.jitter /\ retry.minTimeout = 50
       /\ retry.maxTimeout = 75 /\ retry.factor = 2 )
       => \A i \in 1..Len(retry.waits) :
            retry.waits[i] = IF i = 1 THEN 50 ELSE 75

\* the run of the test: two failures, waits of 50 and 75, then a success
C32_Witness ==
  /\ ~retry.jitter /\ retry.waits = <<50, 75>>
  /\ retry.calls = 3 /\ retry.result.kind = "value"
\* the calls of the polled function made during run r
PollsOf(r) == {i \in PollIds : poll.polls[i].run = r}

\* no timer is pending and no call of the polled function is in flight
PollQuiet ==
  /\ poll.timerId # "pending" /\ poll.untracked = 0
  /\ \A i \in PollIds : poll.polls[i].state \notin {"fn", "onError"}

\* C33: with maxAttempts = M and a predicate that always returns true, a run
\* makes at most M calls of the polled function; it ends only by stop(), by
\* a superseding start() or by the PollError 'Polling reached maximum
\* attempts', which carries attempt M after exactly M calls; once the last
\* run has ended isPolling() is false; and when nothing is pending any more
\* the last run has ended (unless stopped, with that PollError).
C33_MaxAttempts ==
  /\ \A r \in RunIds : Cardinality(PollsOf(r)) <= poll.maxAttempts
  /\ \A r \in RunIds :
       /\ poll.runs[r].kind \in {"none", "pending", "Polling stopped",
                                 "Previous polling operation superseded",
                                 "Polling reached maximum attempts"}
       /\ poll.runs[r].kind = "Polling reached maximum attempts"
            => /\ poll.runs[r].attempt = poll.maxAttempts
               /\ Cardinality(PollsOf(r)) = poll.maxAttempts
  /\ poll.started > 0 /\ poll.runs[poll.started].kind # "pending" => ~poll.polling
  /\ poll.started > 0 /\ PollQuiet => poll.runs[poll.started].kind # "pending"

\* a run rejected after the largest number of attempts
C33_Witness ==
  \E r \in RunIds :
    /\ poll.runs[r].kind = "Polling reached maximum attempts"
    /\ poll.maxAttempts = MaxAttempts /\ poll.runs[r].attempt = MaxAttempts
    /\ ~poll.polling
\* C34: a stop() or a firing abort signal during a run rejects the promise
\* of that run with the PollError 'Polling stopped' or 'Polling operation
\* aborted' carrying the number of calls of the polled function made in the
\* run, and leaves isPolling() false; the polled function is called only
\* while the poller is polling, and only start() makes it polling; a start()
\* with the signal already aborted returns a promise rejected with attempt
\* 0, calls nothing and leaves the poller not polling.
C34_StopAndAbort ==
  [][ /\ Stop \/ (PollSignalAborts /\ poll.polling)
         => /\ poll'.runs[poll.currentPromise].kind =
                 IF poll.signal = poll'.signal THEN "Polling stopped"
                 ELSE "Polling operation aborted"
            /\ poll'.runs[poll.currentPromise].attempt =
                 Cardinality(PollsOf(poll.currentPromise))
            /\ ~poll'.polling
            /\ poll'.nPolls = poll.nPolls
      /\ poll'.nPolls # poll.nPolls => poll.polling
      /\ poll'.polling /\ ~poll.polling => poll'.started # poll.started
      /\ Start /\ poll.signal = "aborted"
         => /\ poll'.runs[poll'.started] =
                 [kind |-> "Polling operation aborted", attempt |-> 0, by |-> 0]
            /\ ~poll'.polling
            /\ poll'.nPolls = poll.nPolls ]_vars

\* a run stopped after two calls of the polled function
C34_Witness ==
  \E r \in RunIds :
    /\ poll.runs[r].kind = "Polling stopped" /\ poll.runs[r].attempt = 2
    /\ Cardinality(PollsOf(r)) = 2 /\ ~poll.polling
\* the calls of the polled function that have not settled
PollsInFlight == {i \in PollIds : poll.polls[i].state = "fn"}

\* C40 as stated: at most one call of the polled function is in flight at a
\* time, and the promise of a run is settled by stop(), by start(), by a
\* timer or by a call made during that run, never by a call made during an
\* earlier run.
C40_Original ==
  /\ Cardinality(PollsInFlight) <= 1
  /\ \A r \in RunIds :
       poll.runs[r].by # 0 => poll.polls[poll.runs[r].by].run = r

\* the background refreshes of key k whose invocation has not settled
Refreshing(k) ==
  {i \in LookupIds : /\ cache.lookups[i].key = k
                     /\ cache.lookups[i].kind = "refresh"
                     /\ cache.lookups[i].fn = "inflight"}

\* the calls that found an entry that was present and expired
StaleReaders ==
  {i \in LookupIds : /\ cache.lookups[i].path # "none"
                     /\ cache.lookups[i].found # NoEntry
                     /\ cache.lookups[i].found.expiry <= cache.lookups[i].now}

C37_WorkConserving ==
  (~paused /\ ~aborted /\ Len(tasks) > 0) => activeCount >= concurrency

\* a queue that has completed a task and holds a pending task behind a full
\* set of running ones
C37_Witness ==
  /\ ~paused /\ ~aborted
  /\ Len(tasks) > 0
  /\ activeCount >= concurrency
  /\ stats.completed > 0

\* how many times the handler that led to the state called config.onDrain
DrainCalls(called) ==
  Cardinality({n \in 1..Len(called) : called[n] = "onDrain"})

\* C38 as stated: a handler calls the onDrain hook once when it takes the
\* queue from a state with a task pending or active to an idle state, and
\* not at all otherwise, in particular not when the queue was idle already.
C38_Original ==
  [][DrainCalls(hooks'.called) = (IF ~Idle /\ Idle' THEN 1 ELSE 0)]_vars

\* C39 as stated: the promise a call of one wrapped function returns is never
\* settled with the outcome of an invocation of the other wrapped function.
C39_Original ==
  \A c \in CallIds :
    callers[c].state \in {"value", "error"} =>
      wrappedBy[callers[c].joined] = wrappedBy[c]

\* no promise is lost: a task whose promise is unsettled is pending or running
NoneLost ==
  \A id \in TaskIds :
    (id <= created /\ outcome[id] = "unsettled") =>
      id \in running \/ \E n \in 1..Len(tasks) : tasks[n] = id

\* C36 as stated: with hooks that call add, addAll, clear, pause, resume or
\* setConcurrency from their body, activeCount stays within the current
\* limit, stats().pending is size(), and every task promise is settled once.
C36_Original ==
  /\ activeCount <= concurrency
  /\ stats.pending = Len(tasks)
  /\ TaskPromisesOk /\ NoneLost

\* C36 as amended: with such hooks stats().pending is size(), every task
\* promise is settled once at most and none is lost, and activeCount stays
\* within the highest limit the queue has had: it is above the current limit
\* only when setConcurrency, called from a hook or by the program, has
\* lowered the limit.
C36_Reentrant ==
  /\ activeCount <= highest
  /\ concurrency <= highest
  /\ stats.pending = Len(tasks)
  /\ TaskPromisesOk /\ NoneLost

\* the onEmpty hook, called while the last pending task was being started,
\* has lowered the limit below the number of running tasks
C36_Witness ==
  /\ hooks.body = "setConcurrency"
  /\ ~hooks.armed
  /\ hooks.called = <<"onEmpty">>
  /\ activeCount > concurrency
====
